---- MODULE Spec2Model ----
(***************************************************************************)
(* A model of the Tauri HTTP bridge of open-chatui: the two path            *)
(* classifiers (shouldProxy of tauri-http-proxy.js, shouldUseBridge of      *)
(* tauri-bridge.js), the two patched fetch functions, proxyRequest, the two  *)
(* emulated XMLHttpRequest classes, and the start-up of                     *)
(* tauri-seamless-integration.js (initialize, waitForBackendReady,          *)
(* testApiConnection, reset).                                               *)
(*                                                                          *)
(* Strings are sequences of chunks ("/", "api", "http://", ...); the chunk  *)
(* alphabet is chosen so that startsWith on the JavaScript strings is the   *)
(* prefix relation on the chunk sequences.                                  *)
(***************************************************************************)
EXTENDS Integers, Sequences, FiniteSets, TLC

VARIABLES CONFIG, BRIDGE_CONFIG, classified, call, xhr,
          isTauri, INTEGRATION_CONFIG, isInitialized, isBackendReady, retryCount,
          init, calls, api, snapshot, client, tauri

\* The module state of tauri-seamless-integration.js and its running
\* initialize() call
integrationVars ==
    <<isTauri, INTEGRATION_CONFIG, isInitialized, isBackendReady, retryCount, init>>

vars ==
    <<CONFIG, BRIDGE_CONFIG, classified, call, xhr, integrationVars, calls, api,
      snapshot, client, tauri>>

(***************************************************************************)
(* Strings                                                                  *)
(***************************************************************************)

\* String.prototype.startsWith
StartsWith(s, p) == Len(p) <= Len(s) /\ SubSeq(s, 1, Len(p)) = p

\* The part of s after its first n chunks
Drop(s, n) == SubSeq(s, n + 1, Len(s))

\* The index of the first "?" of s, or Len(s) + 1
RECURSIVE QueryAt(_, _)
QueryAt(s, i) ==
    IF i > Len(s) THEN i
    ELSE IF s[i] = "?" THEN i
    ELSE QueryAt(s, i + 1)

\* s without its query: what URL.pathname keeps of a path-and-query
BeforeQuery(s) == SubSeq(s, 1, QueryAt(s, 1) - 1)

\* the query of s, "?" included: URL.search
FromQuery(s) == SubSeq(s, QueryAt(s, 1), Len(s))

(***************************************************************************)
(* new URL(url, window.location.origin).pathname                            *)
(* A path is split at "/" into segments, the ".." segments are resolved     *)
(* (each removes the segment before it) and the rest is joined again.       *)
(***************************************************************************)

\* The segments of a path that starts with "/": "/a/b" -> << <<"a">>, <<"b">> >>
RECURSIVE Segments(_, _, _)
Segments(s, i, cur) ==
    IF i > Len(s) THEN <<cur>>
    ELSE IF s[i] = "/" THEN <<cur>> \o Segments(s, i + 1, <<>>)
    ELSE Segments(s, i + 1, Append(cur, s[i]))

\* Dot-segment removal of the URL parser: ".." drops the segment before it, and
\* a ".." that ends the path leaves an empty last segment
RECURSIVE RemoveDots(_, _, _)
RemoveDots(segs, i, out) ==
    IF i > Len(segs) THEN out
    ELSE IF segs[i] = <<"..">>
         THEN LET shorter == IF Len(out) > 0 THEN SubSeq(out, 1, Len(out) - 1) ELSE out
              IN  RemoveDots(segs, i + 1,
                             IF i = Len(segs) THEN Append(shorter, <<>>) ELSE shorter)
    ELSE RemoveDots(segs, i + 1, Append(out, segs[i]))

RECURSIVE Join(_, _)
Join(segs, i) ==
    IF i > Len(segs) THEN <<>>
    ELSE <<"/">> \o segs[i] \o Join(segs, i + 1)

\* The normalised pathname of a path that starts with "/"
NormalizePath(p) ==
    LET segs == RemoveDots(Segments(Drop(p, 1), 1, <<>>), 1, <<>>)
    IN  IF Len(segs) = 0 THEN <<"/">> ELSE Join(segs, 1)

SpecialSchemes == {"http://", "https://"}
OpaqueSchemes == {"data:", "blob:"}
Hosts == {"localhost", "other.example"}

\* String(url): what new URL(url, base) parses. A URL object stringifies to its
\* href, a Request object to "[object Request]"
ToUrlString(u) ==
    IF u.kind = "Request" THEN <<"[object Request]">> ELSE u.s

\* new URL(s, window.location.origin): ok is FALSE where the constructor throws
ParseURL(s) ==
    IF Len(s) > 0 /\ s[1] \in SpecialSchemes \cup {"ipc://"}
    THEN IF Len(s) >= 2 /\ s[2] \in Hosts
         THEN LET rest == BeforeQuery(Drop(s, 2))
              IN  [ok |-> TRUE,
                   absolute |-> TRUE,
                   pathname |-> IF Len(rest) = 0
                                THEN (IF s[1] = "ipc://" THEN <<>> ELSE <<"/">>)
                                ELSE NormalizePath(rest),
                   search |-> FromQuery(Drop(s, 2))]
         ELSE [ok |-> FALSE, absolute |-> TRUE, pathname |-> <<>>, search |-> <<>>]
    ELSE IF Len(s) > 0 /\ s[1] \in OpaqueSchemes
    THEN LET rest == BeforeQuery(Drop(s, 1))
         IN  [ok |-> TRUE,
              absolute |-> TRUE,
              pathname |-> IF StartsWith(rest, <<"/">>) THEN NormalizePath(rest) ELSE rest,
              search |-> FromQuery(Drop(s, 1))]
    ELSE LET rel == IF StartsWith(s, <<"/">>) THEN s ELSE <<"/">> \o s
         IN  [ok |-> TRUE,
              absolute |-> FALSE,
              pathname |-> NormalizePath(BeforeQuery(rel)),
              search |-> FromQuery(rel)]

(***************************************************************************)
(* Routing configuration                                                    *)
(***************************************************************************)

\* tauri-http-proxy.js CONFIG.proxyPaths
DefaultProxyPaths ==
    { <<"/", "api">>, <<"/", "openai">>, <<"/", "ws">>, <<"/", "health">>,
      <<"/", "socket.io">> }

\* tauri-http-proxy.js CONFIG.excludePaths
DefaultProxyExcludePaths ==
    { <<"/", "static">>, <<"/", "assets">>, <<"/", "favicon">>,
      <<"/", "manifest.json">>, <<"data:">>, <<"blob:">>, <<"ipc://">>,
      <<"http://">>, <<"https://">> }

\* tauri-bridge.js CONFIG.bridgePaths
DefaultBridgePaths ==
    { <<"/", "api", "/", "config">>, <<"/", "api", "/", "models">>,
      <<"/", "api", "/", "chat", "/", "completions">>,
      <<"/", "api", "/", "embeddings">>,
      <<"/", "api", "/", "auth", "/", "login">>,
      <<"/", "api", "/", "auth", "/", "register">>,
      <<"/", "api", "/", "user", "/", "profile">>,
      <<"/", "api", "/", "health">>, <<"/", "health">>,
      <<"/", "openai", "/">>, <<"/", "socket.io", "/">>,
      <<"/", "ws", "/", "socket.io", "/">> }

\* tauri-bridge.js CONFIG.excludePaths
DefaultBridgeExcludePaths ==
    { <<"/", "static", "/">>, <<"/", "assets", "/">>, <<"/", "favicon">>,
      <<"/", "manifest.json">> }

DefaultConfig ==
    [tauriCommand |-> "handle_http_request",
     proxyPaths |-> DefaultProxyPaths, excludePaths |-> DefaultProxyExcludePaths]

DefaultBridgeConfig ==
    [enabled |-> TRUE, bridgePaths |-> DefaultBridgePaths,
     excludePaths |-> DefaultBridgeExcludePaths]

(***************************************************************************)
(* The classifiers                                                          *)
(***************************************************************************)

\* Mutant of shouldProxy: the include list is consulted before the exclude list
shouldProxy_IncludeFirst(cfg, u) ==
    IF u.kind # "string" THEN FALSE
    ELSE IF StartsWith(u.s, <<"/">>) /\ \E p \in cfg.proxyPaths : StartsWith(u.s, p)
         THEN TRUE
    ELSE FALSE

\* shouldProxy(url) under CONFIG = cfg. A url that is no string has no
\* startsWith: the TypeError is caught and the result is false
shouldProxy(cfg, u) ==
    IF u.kind # "string" THEN FALSE
    ELSE IF \E prefix \in cfg.excludePaths : StartsWith(u.s, prefix) THEN FALSE
    ELSE IF StartsWith(u.s, <<"/">>) /\ \E proxyPath \in cfg.proxyPaths : StartsWith(u.s, proxyPath)
         THEN TRUE
    ELSE FALSE

\* shouldUseBridge(url) under CONFIG = cfg
shouldUseBridge(cfg, u) ==
    LET urlObj == ParseURL(ToUrlString(u))
        pathname == urlObj.pathname
    IN  IF ~urlObj.ok THEN FALSE
        ELSE IF \E excludePath \in cfg.excludePaths : StartsWith(pathname, excludePath) THEN FALSE
        ELSE IF \E bridgePath \in cfg.bridgePaths :
                    StartsWith(pathname, bridgePath) \/ pathname = bridgePath
             THEN TRUE
        ELSE StartsWith(pathname, <<"/", "api", "/">>) \/ StartsWith(pathname, <<"/", "ws", "/">>)

(***************************************************************************)
(* Inputs of the classifiers                                                *)
(***************************************************************************)

Str(s) == [kind |-> "string", s |-> s]

UrlStrings ==
    { <<"/", "api", "/", "config">>,
      <<"/", "api", "/", "config", "?", "v=1">>,
      <<"/", "api", "/", "v1", "/", "tasks">>,
      <<"/", "static", "/", "app.css">>,
      <<"/", "api", "/", "..", "/", "static", "/", "app.css">>,
      <<"/", "favicon", ".ico">>,
      <<"/", "ws", "/", "socket.io", "/">>,
      <<"/", "index.html">>,
      <<"api", "/", "config">>,
      <<>>,
      <<"http://">>,
      <<"http://", "localhost", "/", "api", "/", "config">>,
      <<"https://", "other.example", "/", "api", "/", "config">>,
      <<"http://", "localhost", "/", "static", "/", "app.css">>,
      <<"data:", "/", "api", "/", "config">>,
      <<"blob:", "http://", "localhost", "/", "uuid">>,
      <<"ipc://", "localhost", "/", "api", "/", "config">> }

UrlInputs ==
    { Str(s) : s \in UrlStrings }
    \cup { [kind |-> "URL", s |-> <<"http://", "localhost", "/", "api", "/", "config">>],
           [kind |-> "Request", s |-> <<"/", "api", "/", "config">>] }

\* The lists a caller may configure in place of the defaults
ProxyPathLists ==
    { DefaultProxyPaths, {}, { <<"/", "static">> }, { <<"/">> },
      { <<"/", "api">>, <<"http://">> } }

ExcludePathLists ==
    { DefaultProxyExcludePaths, DefaultBridgeExcludePaths, {},
      { <<"/", "api">> }, { <<"/", "api", "/", "config">>, <<"/", "static">> } }

BridgePathLists ==
    { DefaultBridgePaths, {}, { <<"/", "static", "/">> }, { <<"/">> } }

\* The command identifiers a caller may configure
Commands == {"handle_http_request", "custom_command"}

(***************************************************************************)
(* Classification: the configuration is changed by setConfig (or by a       *)
(* caller assigning to the exported CONFIG of tauri-bridge.js), and a URL   *)
(* is classified by both classifiers under the current configuration.       *)
(***************************************************************************)

NotClassified == [done |-> FALSE]

\* No snapshot is taken. A snapshot is the object getConfig() returned: value
\* holds its fields, shared the fields whose array is the very array CONFIG
\* holds under the same name
NoSnapshot == [taken |-> FALSE, value |-> DefaultConfig, shared |-> {}]

\* setConfig(newConfig): Object.assign(CONFIG, newConfig). newConfig holds any
\* of the fields; a field it does not hold keeps its value. A list that is
\* assigned is a new array: a snapshot taken before keeps the old one
setConfig(newConfig) ==
    /\ CONFIG' = [f \in DOMAIN CONFIG |->
                    IF f \in DOMAIN newConfig THEN newConfig[f] ELSE CONFIG[f]]
    /\ classified' = NotClassified
    /\ snapshot' = [snapshot EXCEPT !.shared = @ \ DOMAIN newConfig]
    /\ UNCHANGED <<BRIDGE_CONFIG, call, xhr, api, client, tauri, integrationVars, calls>>

\* The objects a caller passes to setConfig
NewConfigs ==
    { [proxyPaths |-> pp] : pp \in ProxyPathLists }
    \cup { [excludePaths |-> ep] : ep \in ExcludePathLists }
    \cup { [tauriCommand |-> c] : c \in Commands }
    \cup { [proxyPaths |-> pp, excludePaths |-> ep] :
              pp \in ProxyPathLists, ep \in ExcludePathLists }

\* TauriBridge.CONFIG is exported as it is: a caller replaces its lists by
\* assignment
AssignBridgeConfig(bp, ep) ==
    /\ BRIDGE_CONFIG' = [BRIDGE_CONFIG EXCEPT !.bridgePaths = bp, !.excludePaths = ep]
    /\ classified' = NotClassified
    /\ UNCHANGED <<CONFIG, call, xhr, api, snapshot, client, tauri, integrationVars, calls>>

\* One URL classified by shouldProxy and by shouldUseBridge
Classify(u) ==
    /\ classified' = [done |-> TRUE, u |-> u,
                      proxy |-> shouldProxy(CONFIG, u),
                      bridge |-> shouldUseBridge(BRIDGE_CONFIG, u)]
    /\ UNCHANGED <<CONFIG, BRIDGE_CONFIG, call, xhr, api, snapshot, client, tauri, integrationVars, calls>>

(***************************************************************************)
(* Envelopes and the body codec                                             *)
(* A body is a sequence of byte values. TextDecoder('utf-8').decode turns   *)
(* it into a sequence of code points, putting U+FFFD for every byte that is *)
(* not part of a well-formed sequence; new Response(text) encodes the code  *)
(* points back to bytes.                                                    *)
(***************************************************************************)

ReplacementChar == 65533

IsContinuation(b) == b >= 128 /\ b <= 191

IsLead2(b) == b >= 194 /\ b <= 223

\* new TextDecoder('utf-8').decode(new Uint8Array(bytes)), for bytes that are
\* ASCII, two-byte sequences or ill-formed
RECURSIVE Utf8Decode(_, _)
Utf8Decode(bytes, i) ==
    IF i > Len(bytes) THEN <<>>
    ELSE IF bytes[i] < 128 THEN <<bytes[i]>> \o Utf8Decode(bytes, i + 1)
    ELSE IF IsLead2(bytes[i]) /\ i < Len(bytes) /\ IsContinuation(bytes[i + 1])
         THEN <<(bytes[i] - 192) * 64 + (bytes[i + 1] - 128)>> \o Utf8Decode(bytes, i + 2)
    ELSE <<ReplacementChar>> \o Utf8Decode(bytes, i + 1)

\* The bytes of a string body: the UTF-8 encoding of its code points
RECURSIVE Utf8Encode(_, _)
Utf8Encode(text, i) ==
    IF i > Len(text) THEN <<>>
    ELSE IF text[i] < 128 THEN <<text[i]>> \o Utf8Encode(text, i + 1)
    ELSE IF text[i] < 2048
         THEN <<192 + (text[i] \div 64), 128 + (text[i] % 64)>> \o Utf8Encode(text, i + 1)
    ELSE <<224 + (text[i] \div 4096), 128 + ((text[i] \div 64) % 64), 128 + (text[i] % 64)>>
             \o Utf8Encode(text, i + 1)

\* The body byte arrays the native handler answers with: empty, "{}", "A",
\* "é" (two bytes), a lone lead byte, and a byte no UTF-8 text holds
Bodies == { <<>>, <<123, 125>>, <<65>>, <<195, 169>>, <<195>>, <<255, 65>> }

\* JSON.parse accepts the text of these bytes
IsJson(bytes) == bytes = <<123, 125>>

RedirectStatuses == {301, 302, 303, 307, 308}

\* The statuses new Response() refuses together with a body
NullBodyStatuses == {101, 103, 204, 205, 304}

NoLocation == <<>>

\* The response envelopes of the native command: every body and content type
\* with status 200, an empty 204, JSON error answers, and redirects with and
\* without a Location header
Envelopes ==
    { [status_code |-> 200, headers |-> [contentType |-> ct, location |-> NoLocation], body |-> b] :
        ct \in {"none", "application/json", "image/png"}, b \in Bodies }
    \cup
    { [status_code |-> st, headers |-> [contentType |-> "application/json", location |-> NoLocation],
       body |-> <<123, 125>>] : st \in {404, 500} }
    \cup
    { [status_code |-> 204, headers |-> [contentType |-> "none", location |-> NoLocation], body |-> <<>>] }
    \cup
    { [status_code |-> st, headers |-> [contentType |-> "none", location |-> loc], body |-> <<>>] :
        st \in {302, 307}, loc \in {NoLocation, <<"/", "api", "/", "config">>} }

NoEnvelope == [status_code |-> 0, headers |-> [contentType |-> "none", location |-> NoLocation], body |-> <<>>]

NoResponse == [status |-> 0, headers |-> [contentType |-> "none", location |-> NoLocation], body |-> <<>>]

\* new Response(bodyText, {status, headers}) with headers = new Headers(h): a
\* string body brings its own content type when the headers name none. The
\* constructor throws a RangeError for a status outside 200..599 and a
\* TypeError for a body given with a null-body status
NewResponse(bodyText, status, h) ==
    IF status < 200 \/ status > 599 THEN [ok |-> FALSE, error |-> "RangeError", response |-> NoResponse]
    ELSE IF status \in NullBodyStatuses THEN [ok |-> FALSE, error |-> "TypeError", response |-> NoResponse]
    ELSE [ok |-> TRUE, error |-> "none",
          response |-> [status |-> status,
                        headers |-> [h EXCEPT !.contentType =
                                        IF h.contentType = "none" THEN "text/plain;charset=UTF-8"
                                        ELSE h.contentType],
                        body |-> Utf8Encode(bodyText, 1)]]

\* Mutant of ToResponse: an envelope with an error status is a failure
ToResponse_ErrorThrows(envelope) ==
    IF envelope.status_code >= 400
    THEN [ok |-> FALSE, error |-> "HTTPError", response |-> NoResponse]
    ELSE NewResponse(Utf8Decode(envelope.body, 1), envelope.status_code, envelope.headers)

\* Lines 153-166 of tauri-http-proxy.js and 104-134 of tauri-bridge.js: the
\* envelope's byte array is decoded as UTF-8 text, whatever its content type,
\* and the text is the body of the Response
ToResponse(envelope) ==
    NewResponse(Utf8Decode(envelope.body, 1), envelope.status_code, envelope.headers)

(***************************************************************************)
(* The patched fetch: window.fetch of tauri-http-proxy.js (impl "proxy")    *)
(* and of tauri-bridge.js (impl "bridge"). One call is followed from the    *)
(* call to its settlement; the native command and the real network answer   *)
(* in steps of their own.                                                   *)
(***************************************************************************)

\* The longest redirect chase the model follows
MaxChase == 11

\* fetch(url, options): the options a caller passes
FetchOptions ==
    { [method |-> "none", body |-> FALSE, headers |-> FALSE],
      [method |-> "POST", body |-> TRUE, headers |-> TRUE],
      [method |-> "post", body |-> TRUE, headers |-> TRUE],
      [method |-> "GET", body |-> TRUE, headers |-> FALSE],
      [method |-> "HEAD", body |-> TRUE, headers |-> FALSE] }

\* A request envelope: body and headers tell whether the envelope carries a
\* body and caller-supplied headers
NoRequest ==
    [uri |-> <<>>, method |-> "none", body |-> FALSE, headers |-> FALSE, command |-> "none"]

Pending == [kind |-> "pending", via |-> "none", error |-> "none", response |-> NoResponse]

IdleCall ==
    [pc |-> "idle", impl |-> "proxy", url |-> Str(<<>>),
     options |-> [method |-> "none", body |-> FALSE, headers |-> FALSE], signal |-> "none",
     request |-> NoRequest, invokes |-> 0, redirects |-> 0, envelope |-> NoEnvelope,
     first |-> NoEnvelope, returned |-> NoEnvelope, located |-> TRUE, bridgeError |-> "none", netCalls |-> 0, net |-> Pending,
     outcome |-> Pending, layer |-> 1, firstCommand |-> "none",
     answeredUnder |-> "none"]

\* What the real network answers a fetch with: a response, or a rejection
NetworkResults ==
    { [kind |-> "resolved", via |-> "network", error |-> "none",
       response |-> [status |-> st,
                     headers |-> [contentType |-> "application/json", location |-> NoLocation],
                     body |-> <<123, 125>>]] : st \in {200, 404} }
    \cup { [kind |-> "rejected", via |-> "network", error |-> "E2", response |-> NoResponse] }

\* A fetch whose signal is aborted rejects with an AbortError
AbortedResult ==
    [kind |-> "rejected", via |-> "network", error |-> "AbortError", response |-> NoResponse]

\* await invoke(command, {localRequest: request}); firstCommand keeps the
\* identifier of the call's first invocation
Invoke(c, request) ==
    [c EXCEPT !.pc = "invoking", !.request = request, !.invokes = @ + 1,
              !.firstCommand = IF c.invokes = 0 THEN request.command ELSE @]

\* originalFetch(...args)
OriginalFetch(c) == [c EXCEPT !.pc = "network", !.netCalls = @ + 1]

Settle(c, outcome) == [c EXCEPT !.pc = "settled", !.outcome = outcome]

Rejected(err) == [kind |-> "rejected", via |-> "bridge", error |-> err, response |-> NoResponse]

Resolved(response) == [kind |-> "resolved", via |-> "bridge", error |-> "none", response |-> response]

\* options.method || 'GET'
MethodOrGet(options) == IF options.method = "none" THEN "GET" ELSE options.method

\* tauri-http-proxy.js, window.fetch up to its first await (lines 125-147). A
\* URL that shouldProxy refuses is refused by every wrapper below as well,
\* down to the real fetch
ProxyFetchCall(c) ==
    IF ~shouldProxy(CONFIG, c.url) THEN OriginalFetch(c)
    ELSE Invoke(c, [uri |-> c.url.s, method |-> MethodOrGet(c.options),
                    body |-> c.options.body, headers |-> c.options.headers,
                    command |-> CONFIG.tauriCommand])

\* tauri-bridge.js, window.fetch up to its first await (lines 62-85). A url that
\* is no string passes shouldUseBridge as its href and has no startsWith: the
\* TypeError rejects the call
BridgeFetchCall(c) ==
    IF ~BRIDGE_CONFIG.enabled \/ ~shouldUseBridge(BRIDGE_CONFIG, c.url) THEN OriginalFetch(c)
    ELSE IF c.url.kind # "string" THEN Settle(c, Rejected("TypeError"))
    ELSE IF StartsWith(c.url.s, <<"ipc://">>) THEN OriginalFetch(c)
    ELSE Invoke(c, [uri |-> IF Len(c.url.s) > 0 /\ c.url.s[1] \in SpecialSchemes
                            THEN ParseURL(c.url.s).pathname \o ParseURL(c.url.s).search
                            ELSE c.url.s,
                    method |-> MethodOrGet(c.options),
                    body |-> c.options.body,
                    headers |-> c.options.headers,
                    command |-> "handle_http_request"])

\* originalFetch(...args) called by the wrapper of tauri-http-proxy.js that
\* c runs in (c.layer counts it and the wrappers it encloses): the function
\* is the wrapper installed before, when there is one, and the real fetch
\* otherwise
ProxyOriginalFetch(c) ==
    IF c.layer > 1 THEN ProxyFetchCall([c EXCEPT !.layer = @ - 1]) ELSE OriginalFetch(c)

\* handleRedirect(response) of tauri-http-proxy.js. The function is declared at
\* module level, where no invoke is in scope (invoke is a const of proxyFetch
\* and of proxyRequest): reaching line 103 throws a ReferenceError
handleRedirect(response) ==
    IF response.status_code \in RedirectStatuses /\ response.headers.location # NoLocation
    THEN [threw |-> TRUE, error |-> "ReferenceError", response |-> response]
    ELSE [threw |-> FALSE, error |-> "none", response |-> response]

\* The pending invocation of c resolved with envelope; first keeps the answer
\* to the call's own request and answeredUnder the value CONFIG.tauriCommand
\* has when that answer arrives
Received(c, envelope) ==
    [c EXCEPT !.envelope = envelope,
              !.first = IF c.invokes = 1 THEN envelope ELSE @,
              !.answeredUnder = IF c.invokes = 1 THEN CONFIG.tauriCommand ELSE @]

\* Mutant of FallbackResult: a failed fallback rethrows the error that was caught
FallbackResult_Rethrow(err, net) ==
    IF net.kind = "rejected" THEN [net EXCEPT !.error = err] ELSE net

\* tauri-http-proxy.js line 173, return originalFetch(...args) in the catch
\* block: the call settles as the network request does; err is only logged
FallbackResult(err, net) == net

\* tauri-http-proxy.js, window.fetch after invoke resolved (lines 149-174)
ProxyFetchResolved(c, envelope) ==
    LET c1 == Received(c, envelope)
        redirected == handleRedirect(envelope)
        converted == ToResponse(redirected.response)
    IN  IF redirected.threw
        THEN ProxyOriginalFetch([c1 EXCEPT !.bridgeError = redirected.error])
        ELSE IF ~converted.ok
        THEN ProxyOriginalFetch([c1 EXCEPT !.bridgeError = converted.error])
        ELSE Settle(c1, Resolved(converted.response))

\* tauri-bridge.js, window.fetch after an invoke resolved (lines 87-147): the
\* while loop invokes again for every redirect status, with no count
BridgeFetchResolved(c, envelope) ==
    LET c1 == Received(c, envelope)
        converted == ToResponse(envelope)
    IN  IF envelope.status_code \in RedirectStatuses
        THEN Invoke([c1 EXCEPT !.redirects = @ + 1,
                               !.located = @ /\ envelope.headers.location # NoLocation],
                    [uri |-> envelope.headers.location, method |-> "GET", body |-> FALSE,
                     headers |-> FALSE, command |-> "handle_http_request"])
        ELSE IF ~converted.ok THEN Settle(c1, Rejected(converted.error))
        ELSE Settle(c1, Resolved(converted.response))

\* What proxyRequest settles with
RequestRejected(err) == [kind |-> "rejected", via |-> "request", error |-> err, response |-> NoResponse]

RequestResolved == [kind |-> "resolved", via |-> "request", error |-> "none", response |-> NoResponse]

\* proxyRequest(url, options) up to its await (lines 512-527)
ProxyRequestCall(c) ==
    IF ~isTauri THEN Settle(c, RequestRejected("NotTauri"))
    ELSE Invoke(c, [uri |-> c.url.s, method |-> MethodOrGet(c.options),
                    body |-> c.options.body, headers |-> c.options.headers,
                    command |-> CONFIG.tauriCommand])

\* What proxyRequest does with the envelope its invocation resolved with
\* (lines 529-532): an error thrown by handleRedirect rejects the call,
\* otherwise the envelope is returned
proxyRequestReturn(envelope) ==
    LET redirected == handleRedirect(envelope)
    IN  IF redirected.threw
        THEN [ok |-> FALSE, error |-> redirected.error, envelope |-> NoEnvelope]
        ELSE [ok |-> TRUE, error |-> "none", envelope |-> redirected.response]

\* proxyRequest after invoke resolved
ProxyRequestResolved(c, envelope) ==
    LET c1 == Received(c, envelope)
        ret == proxyRequestReturn(envelope)
    IN  IF ~ret.ok THEN Settle(c1, RequestRejected(ret.error))
        ELSE Settle([c1 EXCEPT !.returned = ret.envelope], RequestResolved)

(***************************************************************************)
(* The emulated XMLHttpRequest: class ProxyXMLHttpRequest of                *)
(* tauri-http-proxy.js (impl "proxy") and of tauri-bridge.js (impl          *)
(* "bridge"). fired holds the callbacks the last operation invoked, each    *)
(* as <<event, "field">> (the on<event> handler field) or                   *)
(* <<event, "listener">> (a callback subscribed with addEventListener).     *)
(***************************************************************************)

EventNames == {"readystatechange", "load", "error", "abort"}

\* new XMLHttpRequest(): the constructor of tauri-bridge.js triggers
\* readystatechange when no handler can be set yet
NewXhr(impl) ==
    [impl |-> impl, pc |-> "idle", path |-> "none", opened |-> FALSE, url |-> Str(<<>>),
     readyState |-> 0, nativeState |-> 0, status |-> 0, aborted |-> FALSE,
     abortedInFlight |-> FALSE, hasField |-> {}, hasListener |-> {},
     fired |-> {}, completion |-> "none", op |-> "new"]

\* The callbacks subscribed to event: EventTarget._triggerEvent
Listeners(x, event) == IF event \in x.hasListener THEN {<<event, "listener">>} ELSE {}

\* The handler field on<event>, when it is set
Field(x, event) == IF event \in x.hasField THEN {<<event, "field">>} ELSE {}

\* this._triggerEvent(event): tauri-http-proxy.js inherits EventTarget's, which
\* calls the subscribed callbacks only; tauri-bridge.js overrides it and calls
\* the handler field as well
TriggerEvent(x, event) ==
    IF x.impl = "proxy" THEN Listeners(x, event)
    ELSE Listeners(x, event) \cup Field(x, event)

\* The URLs an XMLHttpRequest is opened with
XhrUrls == { Str(<<"/", "api", "/", "config">>), Str(<<"/", "static", "/", "app.css">>) }

\* The envelopes the native command answers an XMLHttpRequest with: JSON, a
\* body that is no JSON under a JSON content type, binary data, an error
XhrEnvelopes ==
    { e \in Envelopes :
        \/ e.status_code = 200 /\ e.headers.contentType = "application/json"
              /\ e.body \in {<<123, 125>>, <<65>>}
        \/ e.status_code = 200 /\ e.headers.contentType = "image/png" /\ e.body = <<255, 65>>
        \/ e.status_code = 500 }

\* xhr.on<name> = handler, before open()
XhrSetHandler(name) ==
    /\ xhr.pc = "idle" /\ ~xhr.opened
    /\ name \notin xhr.hasField
    /\ xhr' = [xhr EXCEPT !.hasField = @ \cup {name}, !.fired = {}, !.op = "setHandler"]
    /\ UNCHANGED <<CONFIG, BRIDGE_CONFIG, classified, call, integrationVars, calls, api, snapshot, client, tauri>>

\* xhr.addEventListener(name, callback), before open()
XhrAddEventListener(name) ==
    /\ xhr.pc = "idle" /\ ~xhr.opened
    /\ name \notin xhr.hasListener
    /\ xhr' = [xhr EXCEPT !.hasListener = @ \cup {name}, !.fired = {}, !.op = "addEventListener"]
    /\ UNCHANGED <<CONFIG, BRIDGE_CONFIG, classified, call, integrationVars, calls, api, snapshot, client, tauri>>

\* open(method, url): no state is refused
XhrOpen(u) ==
    /\ xhr' = [xhr EXCEPT !.opened = TRUE, !.url = u, !.readyState = 1,
                          !.fired = TriggerEvent(xhr, "readystatechange"), !.op = "open"]
    /\ UNCHANGED <<CONFIG, BRIDGE_CONFIG, classified, call, integrationVars, calls, api, snapshot, client, tauri>>

\* The call fetch(this.url, options) of send() starts
XhrFetchCall(x) ==
    LET c == [IdleCall EXCEPT !.impl = x.impl, !.url = x.url,
                              !.options = [method |-> "GET", body |-> FALSE, headers |-> FALSE],
                              !.signal = "xhr"]
    IN  IF x.impl = "proxy" THEN ProxyFetchCall(c) ELSE BridgeFetchCall(c)

\* send(data). tauri-http-proxy.js hands a URL that shouldProxy refuses to a
\* real XMLHttpRequest (_sendNative); otherwise readyState becomes 2 and the
\* request is fetched. One request is in flight at a time
XhrSend ==
    /\ xhr.opened /\ xhr.pc \in {"idle", "done"}
    /\ IF xhr.impl = "proxy" /\ ~shouldProxy(CONFIG, xhr.url)
       THEN /\ xhr' = [xhr EXCEPT !.pc = "native", !.path = "native", !.nativeState = 1,
                                  !.completion = "none", !.abortedInFlight = FALSE,
                                  !.fired = {}, !.op = "send"]
            /\ call' = IdleCall
       ELSE /\ xhr' = [xhr EXCEPT !.pc = "sent", !.path = "fetch", !.readyState = 2,
                                  !.completion = "none", !.abortedInFlight = FALSE,
                                  !.fired = TriggerEvent(xhr, "readystatechange"),
                                  !.op = "send"]
            /\ call' = XhrFetchCall(xhr)
    /\ UNCHANGED <<CONFIG, BRIDGE_CONFIG, classified, integrationVars, calls, api, snapshot, client, tauri>>

\* The first then() of send(): the fetch resolved
XhrFetchResolved ==
    /\ xhr.pc = "sent" /\ call.pc = "settled" /\ call.outcome.kind = "resolved"
    /\ xhr' = [xhr EXCEPT !.pc = "parsing", !.status = call.outcome.response.status,
                          !.readyState = 3,
                          !.fired = TriggerEvent(xhr, "readystatechange"),
                          !.op = "fetchResolved"]
    /\ UNCHANGED <<CONFIG, BRIDGE_CONFIG, classified, call, integrationVars, calls, api, snapshot, client, tauri>>

\* _parseResponse(response) with responseType '': response.json() for a JSON
\* content type, which rejects when the body is no JSON; text() or blob()
\* otherwise
ParseSucceeds(response) ==
    response.headers.contentType = "application/json" => IsJson(response.body)

\* The second then() of send(): the body is parsed, readyState becomes 4,
\* readystatechange is triggered and the onload field is called
XhrLoaded ==
    /\ xhr.pc = "parsing" /\ ParseSucceeds(call.outcome.response)
    /\ xhr' = [xhr EXCEPT !.pc = "done", !.readyState = 4,
                          !.fired = TriggerEvent(xhr, "readystatechange") \cup Field(xhr, "load"),
                          !.completion = IF "load" \in xhr.hasField THEN "load" ELSE @,
                          !.op = "loaded"]
    /\ UNCHANGED <<CONFIG, BRIDGE_CONFIG, classified, call, integrationVars, calls, api, snapshot, client, tauri>>

\* The catch() of send(). tauri-http-proxy.js sets readyState to 4 and then
\* calls error(...), which names the rejection reason (the parameter hides the
\* module's error function): the TypeError ends the handler before onerror.
\* tauri-bridge.js calls the onerror field
XhrCatch(x) ==
    IF x.impl = "proxy"
    THEN [x EXCEPT !.pc = "done", !.readyState = 4, !.fired = {}, !.op = "failed"]
    ELSE [x EXCEPT !.pc = "done", !.fired = Field(x, "error"),
                   !.completion = IF "error" \in x.hasField THEN "error" ELSE @,
                   !.op = "failed"]

\* The fetch of send() rejected
XhrFetchRejected ==
    /\ xhr.pc = "sent" /\ call.pc = "settled" /\ call.outcome.kind = "rejected"
    /\ xhr' = XhrCatch(xhr)
    /\ UNCHANGED <<CONFIG, BRIDGE_CONFIG, classified, call, integrationVars, calls, api, snapshot, client, tauri>>

\* Parsing the body rejected
XhrParseFailed ==
    /\ xhr.pc = "parsing" /\ ~ParseSucceeds(call.outcome.response)
    /\ xhr' = XhrCatch(xhr)
    /\ UNCHANGED <<CONFIG, BRIDGE_CONFIG, classified, call, integrationVars, calls, api, snapshot, client, tauri>>

\* abort(): the controller is aborted, readyState becomes 0 and one event is
\* triggered ('abort' in tauri-http-proxy.js, 'readystatechange' in
\* tauri-bridge.js). The promise chain of send() is left as it is
XhrAbort ==
    /\ xhr.opened
    /\ xhr' = [xhr EXCEPT !.aborted = TRUE, !.readyState = 0,
                          !.abortedInFlight = xhr.pc \in {"sent", "parsing"},
                          !.fired = TriggerEvent(xhr, IF xhr.impl = "proxy" THEN "abort"
                                                      ELSE "readystatechange"),
                          !.op = "abort"]
    /\ UNCHANGED <<CONFIG, BRIDGE_CONFIG, classified, call, integrationVars, calls, api, snapshot, client, tauri>>

\* _sendNative: the real XMLHttpRequest changes state; its onreadystatechange
\* copies the state and calls the onreadystatechange field, and at the end the
\* real object calls the onload or onerror handler copied to it
XhrNativeStateChange(rs, outcome) ==
    /\ xhr.pc = "native" /\ rs > xhr.nativeState
    /\ xhr' = [xhr EXCEPT !.nativeState = rs, !.readyState = rs,
                          !.pc = IF rs = 4 THEN "done" ELSE @,
                          !.fired = Field(xhr, "readystatechange")
                                    \cup (IF rs = 4 THEN Field(xhr, outcome) ELSE {}),
                          !.completion = IF rs = 4 /\ outcome \in xhr.hasField THEN outcome ELSE @,
                          !.op = "nativeStateChange"]
    /\ UNCHANGED <<CONFIG, BRIDGE_CONFIG, classified, call, integrationVars, calls, api, snapshot, client, tauri>>

\* fetch(url, options) is called through the patched window.fetch: through
\* the wrapper the module installed when it was loaded, or through as many
\* as initialize() has installed since
Fetch(impl, u, options) ==
    /\ call.pc = "idle"
    /\ LET c == [IdleCall EXCEPT !.impl = impl, !.url = u, !.options = options,
                                 !.layer = IF init.layers > 1 THEN init.layers ELSE 1]
       IN  call' = IF impl = "proxy" THEN ProxyFetchCall(c) ELSE BridgeFetchCall(c)
    /\ UNCHANGED <<CONFIG, BRIDGE_CONFIG, classified, xhr, api, snapshot, client, tauri, integrationVars, calls>>

\* The call c resumes after its await invoke(...) resolved with envelope
InvokeResolved(c, envelope) ==
    IF c.impl = "proxy" THEN ProxyFetchResolved(c, envelope)
    ELSE IF c.impl = "bridge" THEN BridgeFetchResolved(c, envelope)
    ELSE ProxyRequestResolved(c, envelope)

\* The call c resumes after its await invoke(...) rejected with err: the fetch
\* of tauri-http-proxy.js catches it and falls back to the network, the fetch
\* of tauri-bridge.js and proxyRequest have no handler around the await
InvokeRejected(c, err) ==
    IF c.impl = "proxy" THEN ProxyOriginalFetch([c EXCEPT !.bridgeError = err])
    ELSE IF c.impl = "bridge" THEN Settle([c EXCEPT !.bridgeError = err], Rejected(err))
    ELSE Settle(c, RequestRejected(err))

\* The call c resumes after its originalFetch(...) settled as net
NetworkSettled(c, net) ==
    IF c.bridgeError = "none" THEN Settle([c EXCEPT !.net = net], net)
    ELSE Settle([c EXCEPT !.net = net], FallbackResult(c.bridgeError, net))

\* proxyRequest(url, options) is called
ProxyRequest(u, options) ==
    /\ call.pc = "idle"
    /\ call' = ProxyRequestCall([IdleCall EXCEPT !.impl = "request", !.url = u,
                                                 !.options = options])
    /\ UNCHANGED <<CONFIG, BRIDGE_CONFIG, classified, xhr, api, snapshot, client, tauri, integrationVars, calls>>

\* The native command answers the pending invocation with an envelope
NativeResolve(envelope) ==
    /\ call.pc = "invoking"
    /\ envelope.status_code \in RedirectStatuses /\ call.impl = "bridge" => call.redirects < MaxChase
    /\ call' = InvokeResolved(call, envelope)
    /\ UNCHANGED <<CONFIG, BRIDGE_CONFIG, classified, xhr, api, snapshot, client, tauri, integrationVars, calls>>

\* The pending invocation rejects with err
NativeReject(err) ==
    /\ call.pc = "invoking"
    /\ call' = InvokeRejected(call, err)
    /\ UNCHANGED <<CONFIG, BRIDGE_CONFIG, classified, xhr, api, snapshot, client, tauri, integrationVars, calls>>

\* The request signal of the call is aborted
SignalAborted == call.signal = "xhr" /\ xhr.aborted

\* The real network settles the pending originalFetch
NetworkSettle(net) ==
    /\ call.pc = "network"
    /\ SignalAborted <=> net = AbortedResult
    /\ call' = NetworkSettled(call, net)
    /\ UNCHANGED <<CONFIG, BRIDGE_CONFIG, classified, xhr, api, snapshot, client, tauri, integrationVars, calls>>

\* INTEGRATION_CONFIG as the module defines it; connectionTimeout 10000 ms
DefaultIntegrationConfig ==
    [commandName |-> "handle_http_request", autoConnect |-> TRUE,
     connectionTimeout |-> 10, retryAttempts |-> 3, debug |-> FALSE]

\* No initialize() call is running. installed tells whether window.fetch is
\* patched by tauri-http-proxy.js and layers how many times proxyFetch() has
\* wrapped it (up to MaxLayers); everReady, probeFailed and attempts record
\* what happened (a health probe succeeded; a probe failed during the current
\* wait; the waits started by the current call, its retries included).
\* reentries counts the calls of line 168 made for the current top-level call
\* (each leaves one more activation of initialize() suspended), resetDuring
\* tells whether reset() was called since the call started, errorEvents the
\* 'tauri-seamless-error' events the call dispatched, lastProbe is the
\* status the probe of the last step returned (0: none, or it threw),
\* entered tells whether the call went past the check of line 132, and
\* lastTest is what testApiConnection() returned last for the call
IdleInit ==
    [pc |-> "idle", wait |-> "none", waitError |-> "none", elapsed |-> 0, timer |-> 0,
     attempts |-> 0, probeFailed |-> FALSE, notified |-> "none", error |-> "none",
     installed |-> FALSE, everReady |-> FALSE, op |-> "none",
     reentries |-> 0, resetDuring |-> FALSE, errorEvents |-> 0, lastProbe |-> 0,
     entered |-> FALSE, lastTest |-> "none", layers |-> 0]

\* The calls that are in flight together
MaxCalls == 2

Callers == 1..MaxCalls

\* No bridged call is in flight. answer is the envelope the native command
\* produced last for the invocation of the call, answered tells that it is not
\* delivered to the call yet
IdleCalls == [i \in Callers |-> [c |-> IdleCall, answer |-> NoEnvelope, answered |-> FALSE]]

\* apiRequest is not called
NoApiResult ==
    [kind |-> "pending", error |-> "none", status |-> 0,
     headers |-> [contentType |-> "none", location |-> NoLocation],
     data |-> [kind |-> "none", text |-> <<>>, bytes |-> <<>>]]

IdleApi ==
    [pc |-> "idle", path |-> <<>>, method |-> "none", body |-> FALSE, headers |-> FALSE,
     result |-> NoApiResult]

\* new OpenCoreUIAPIClient(): frames counts the activations of initialize()
\* that are suspended or running (up to MaxFrames), elapsed the time the
\* current waitForBridgeReady() has waited, in polling intervals,
\* resolved tells whether its promise is resolved, and polling whether a
\* timer for checkReady is armed
IdleClient ==
    [pc |-> "idle", initialized |-> FALSE, frames |-> 0, elapsed |-> 0, resolved |-> FALSE,
     result |-> "none", polling |-> FALSE]

\* The calls of TauriIntegration.initialize() that may be pending together
MaxRuns == 2

Runs == 1 .. MaxRuns

\* new TauriIntegration(): pc[i] is the position of the i-th call of
\* initialize(), thrownBy[i] the step whose error its catch block received.
\* readyEvents, backendReadyEvents and errorEvents count the dispatched
\* 'tauri-integration-ready', 'tauri-backend-ready' and
\* 'tauri-integration-error' events, listeners and overrides the runs of
\* setupEventListeners() and overrideNativeFunctions(); overlapped tells that
\* a call passed the isInitialized check while another call was suspended
NewTauriIntegration ==
    [isInitialized |-> FALSE, backendReady |-> FALSE, appInfoTauri |-> FALSE,
     pc |-> [i \in Runs |-> "idle"], thrownBy |-> [i \in Runs |-> "none"],
     readyEvents |-> 0, backendReadyEvents |-> 0, errorEvents |-> 0,
     listeners |-> 0, overrides |-> 0, overlapped |-> FALSE]

\* The state of tauri-seamless-integration.js when it is loaded
IdleIntegration ==
    /\ api = IdleApi
    /\ snapshot = NoSnapshot
    /\ client = IdleClient
    /\ tauri = NewTauriIntegration
    /\ INTEGRATION_CONFIG = DefaultIntegrationConfig
    /\ isInitialized = FALSE
    /\ isBackendReady = FALSE
    /\ retryCount = 0
    /\ init = IdleInit
    /\ calls = IdleCalls

Impls == {"proxy", "bridge"}

\* The paths proxyRequest is called with
RequestUrls ==
    { Str(<<"/", "health">>), Str(<<"/", "api", "/", "config">>),
      Str(<<"/", "api", "/", "models">>) }

InitIdle ==
    /\ call = IdleCall
    /\ xhr = NewXhr("proxy")

InitFetch ==
    /\ CONFIG = DefaultConfig
    /\ BRIDGE_CONFIG = DefaultBridgeConfig
    /\ classified = NotClassified
    /\ InitIdle
    /\ isTauri = TRUE
    /\ IdleIntegration

NextFetch ==
    \/ \E impl \in Impls, u \in UrlInputs, options \in FetchOptions : Fetch(impl, u, options)
    \/ \E u \in RequestUrls, options \in FetchOptions : ProxyRequest(u, options)
    \/ \E envelope \in Envelopes : NativeResolve(envelope)
    \/ NativeReject("E1")
    \/ \E net \in NetworkResults : NetworkSettle(net)
    \/ \E command \in Commands : setConfig([tauriCommand |-> command])

SpecFetch == InitFetch /\ [][NextFetch]_vars

InitXhr ==
    /\ CONFIG = DefaultConfig
    /\ BRIDGE_CONFIG = DefaultBridgeConfig
    /\ classified = NotClassified
    /\ call = IdleCall
    /\ \E impl \in Impls : xhr = NewXhr(impl)
    /\ isTauri = TRUE
    /\ IdleIntegration

NextXhr ==
    \/ \E name \in EventNames : XhrSetHandler(name)
    \/ \E name \in EventNames : XhrAddEventListener(name)
    \/ \E u \in XhrUrls : XhrOpen(u)
    \/ XhrSend
    \/ XhrAbort
    \/ \E envelope \in XhrEnvelopes : NativeResolve(envelope)
    \/ NativeReject("E1")
    \/ \E net \in NetworkResults \cup {AbortedResult} : NetworkSettle(net)
    \/ XhrFetchResolved
    \/ XhrLoaded
    \/ XhrFetchRejected
    \/ XhrParseFailed
    \/ \E rs \in 2..4, outcome \in {"load", "error"} : XhrNativeStateChange(rs, outcome)

SpecXhr == InitXhr /\ [][NextXhr]_vars

(***************************************************************************)
(* tauri-seamless-integration.js: initialize(), waitForBackendReady(),      *)
(* testApiConnection() and reset(). Time is counted in units of the polling *)
(* interval (1000 ms). init is the running initialize() call: elapsed is    *)
(* Date.now() - startTime of its waitForBackendReady, kept up to one unit   *)
(* beyond the timeout (all the code compares it with), timer the time left  *)
(* on the pending setTimeout.                                               *)
(***************************************************************************)

\* The options a caller passes to initialize(); {debug: false} changes nothing
InitializeOptions ==
    { [debug |-> FALSE], [connectionTimeout |-> 2], [retryAttempts |-> 1],
      [autoConnect |-> FALSE], [commandName |-> "custom_command"] }

\* Object.assign(target, source)
ObjectAssign(target, source) ==
    [f \in DOMAIN target |-> IF f \in DOMAIN source THEN source[f] ELSE target[f]]

\* setTimeout(checkReady, 1000) and setTimeout(resolve, 2000)
PollDelay == 1
RetryDelay == 2

\* The envelopes the native command answers the probe and the API test with
GateEnvelopes ==
    { e \in Envelopes :
        \/ e.status_code \in {200, 500} /\ e.headers.contentType = "application/json"
              /\ e.body = <<123, 125>>
        \/ e.status_code = 204
        \/ e.status_code = 302 /\ e.headers.location # NoLocation }

\* The waits of one initialize() call are counted up to MaxAttempts
MaxAttempts == 3

\* The re-entries of one initialize() call are counted up to MaxReentries
MaxReentries == 4

\* The wrappers around window.fetch are counted up to MaxLayers
MaxLayers == 2

\* The end of initialize() on success (lines 172-184)
InitializeDone(g) ==
    /\ isInitialized' = TRUE
    /\ init' = [g EXCEPT !.pc = "resolved", !.notified = "ready"]

\* The catch block of initialize() (lines 186-196). The error is rethrown to
\* the activation that awaits this one at line 168, inside its own try: every
\* suspended activation runs the catch block in turn
InitializeFailed(g, err) ==
    /\ isInitialized' = FALSE
    /\ init' = [g EXCEPT !.pc = "rejected", !.notified = "error", !.error = err,
                         !.errorEvents = g.reentries + 1]

\* proxyFetch() of tauri-http-proxy.js, which initialize() of that module
\* calls (line 476; line 155 of tauri-seamless-integration.js calls it):
\* originalFetch = window.fetch, whatever window.fetch is at that moment, and
\* window.fetch becomes a new wrapper around it; window.originalFetch is set
\* to the function that was wrapped (lines 122-178)
proxyFetch(g) ==
    [g EXCEPT !.installed = TRUE, !.layers = IF @ < MaxLayers THEN @ + 1 ELSE @]

\* The body of initialize() after the options are merged (lines 139-170), up
\* to the first await
InitializeBody(g) ==
    /\ CONFIG' = [CONFIG EXCEPT !.tauriCommand = INTEGRATION_CONFIG'.commandName]
    /\ IF ~isTauri
       THEN /\ init' = [g EXCEPT !.pc = "resolved"]
            /\ UNCHANGED isInitialized
       ELSE IF INTEGRATION_CONFIG'.autoConnect
       THEN /\ init' = [proxyFetch(g) EXCEPT !.pc = "probing", !.wait = "pending",
                                 !.waitError = "none", !.elapsed = 0, !.timer = 0,
                                 !.probeFailed = FALSE,
                                 !.attempts = IF @ < MaxAttempts THEN @ + 1 ELSE @]
            /\ UNCHANGED isInitialized
       ELSE InitializeDone(proxyFetch(g))

\* initialize(options) up to its first await, or to its end when it has none,
\* as any caller calls it
InitializeCall(options) ==
    /\ init.pc \in {"idle", "resolved", "rejected"}
    /\ LET g == [init EXCEPT !.attempts = 0, !.wait = "none", !.waitError = "none",
                             !.notified = "none", !.error = "none", !.op = "initialize",
                             !.reentries = 0, !.resetDuring = FALSE, !.errorEvents = 0,
                             !.lastProbe = 0, !.entered = FALSE,
                             !.lastTest = "none"]
       IN  IF isInitialized
           THEN /\ init' = [g EXCEPT !.pc = "resolved"]
                /\ UNCHANGED <<CONFIG, INTEGRATION_CONFIG, isInitialized>>
           ELSE /\ INTEGRATION_CONFIG' = ObjectAssign(INTEGRATION_CONFIG, options)
                /\ InitializeBody([g EXCEPT !.entered = TRUE])
    /\ UNCHANGED <<BRIDGE_CONFIG, classified, xhr, snapshot, client, tauri, isTauri, isBackendReady,
                   retryCount, calls>>

\* initialize(options), called by the application
Initialize(options) ==
    /\ InitializeCall(options)
    /\ UNCHANGED <<call, api>>

\* Mutant of probeCatch: a failed probe rejects the wait
probeCatch_Rethrow(err) == [rejects |-> TRUE, error |-> err]

\* The catch block of checkReady (lines 83-85): the error is logged
probeCatch(err) == [rejects |-> FALSE, error |-> "none"]

\* checkReady after a probe that did not succeed (lines 87-94): the wait
\* rejects once more than the timeout has elapsed, and polls again otherwise
CheckTimeout(g) ==
    IF g.elapsed > INTEGRATION_CONFIG.connectionTimeout
    THEN InitializeFailed([g EXCEPT !.wait = "rejected", !.waitError = "timeout"], "timeout")
    ELSE /\ init' = [g EXCEPT !.pc = "waiting", !.timer = PollDelay]
         /\ UNCHANGED isInitialized

\* Mutant of probeSucceeded: every 2xx status counts as ready
probeSucceeded_Any2xx(response) == response.status_code \in 200..299

\* response.status_code === 200 (line 77)
probeSucceeded(response) == response.status_code = 200

\* The probe proxyRequest('/health') resolved with envelope
ProbeResolve(envelope) ==
    /\ init.pc = "probing"
    /\ LET ret == proxyRequestReturn(envelope)
           g == [init EXCEPT !.op = "probe",
                             !.lastProbe = IF ret.ok THEN ret.envelope.status_code ELSE 0]
       IN  IF ret.ok /\ probeSucceeded(ret.envelope)
           THEN /\ isBackendReady' = TRUE
                /\ init' = [g EXCEPT !.wait = "resolved", !.everReady = TRUE,
                                     !.pc = "testConfig"]
                /\ UNCHANGED isInitialized
           ELSE /\ UNCHANGED isBackendReady
                /\ IF ret.ok THEN CheckTimeout(g)
                   ELSE IF probeCatch(ret.error).rejects
                   THEN InitializeFailed([g EXCEPT !.wait = "rejected",
                                                   !.waitError = ret.error], ret.error)
                   ELSE CheckTimeout([g EXCEPT !.probeFailed = TRUE])
    /\ UNCHANGED <<CONFIG, BRIDGE_CONFIG, classified, call, xhr, api, snapshot, client, tauri, isTauri,
                   INTEGRATION_CONFIG, retryCount, calls>>

\* The probe invocation rejected with err
ProbeReject(err) ==
    /\ init.pc = "probing"
    /\ LET g == [init EXCEPT !.op = "probe", !.lastProbe = 0]
       IN  IF probeCatch(err).rejects
           THEN InitializeFailed([g EXCEPT !.wait = "rejected", !.waitError = err], err)
           ELSE CheckTimeout([g EXCEPT !.probeFailed = TRUE])
    /\ UNCHANGED <<CONFIG, BRIDGE_CONFIG, classified, call, xhr, api, snapshot, client, tauri, isTauri,
                   INTEGRATION_CONFIG, isBackendReady, retryCount, calls>>

\* Mutant of completedRetryCount: a completed initialize() clears the counter
completedRetryCount_Cleared(n) == 0

\* retryCount after initialize() completed (lines 172-184): it is only read,
\* for the detail of the ready event
completedRetryCount(n) == n

\* Mutant of retryAllowed: one retry more than configured
retryAllowed_OneMore(count, attempts) == count <= attempts

\* retryCount < INTEGRATION_CONFIG.retryAttempts (line 164)
retryAllowed(count, attempts) == count < attempts

\* initialize() after testApiConnection() returned apiTest (lines 164-184)
AfterTest(g, apiTest) ==
    LET g1 == [g EXCEPT !.lastTest = IF apiTest THEN "passed" ELSE "failed"]
    IN  IF ~apiTest /\ retryAllowed(retryCount, INTEGRATION_CONFIG.retryAttempts)
        THEN /\ retryCount' = retryCount + 1
             /\ init' = [g1 EXCEPT !.pc = "retryDelay", !.timer = RetryDelay]
             /\ UNCHANGED isInitialized
        ELSE /\ retryCount' = completedRetryCount(retryCount)
             /\ InitializeDone(g1)

\* A proxyRequest of testApiConnection() resolved with envelope: '/api/config'
\* first, then '/api/models'; a status other than 200 or an error thrown by
\* proxyRequest makes the test return false
TestResolve(envelope) ==
    /\ init.pc \in {"testConfig", "testModels"}
    /\ LET ret == proxyRequestReturn(envelope)
           g == [init EXCEPT !.op = "test", !.lastProbe = 0]
       IN  IF ~(ret.ok /\ ret.envelope.status_code = 200) THEN AfterTest(g, FALSE)
           ELSE IF init.pc = "testConfig"
           THEN /\ init' = [g EXCEPT !.pc = "testModels"]
                /\ UNCHANGED <<isInitialized, retryCount>>
           ELSE AfterTest(g, TRUE)
    /\ UNCHANGED <<CONFIG, BRIDGE_CONFIG, classified, call, xhr, api, snapshot, client, tauri, isTauri,
                   INTEGRATION_CONFIG, isBackendReady, calls>>

\* A proxyRequest of testApiConnection() rejected: the test returns false
TestReject(err) ==
    /\ init.pc \in {"testConfig", "testModels"}
    /\ AfterTest([init EXCEPT !.op = "test", !.lastProbe = 0], FALSE)
    /\ UNCHANGED <<CONFIG, BRIDGE_CONFIG, classified, call, xhr, api, snapshot, client, tauri, isTauri,
                   INTEGRATION_CONFIG, isBackendReady, calls>>

\* The timer of line 94 fires: checkReady probes again
PollTimerFires ==
    /\ init.pc = "waiting" /\ init.timer = 0
    /\ init' = [init EXCEPT !.pc = "probing", !.op = "timer", !.lastProbe = 0]
    /\ UNCHANGED <<CONFIG, BRIDGE_CONFIG, classified, call, xhr, api, snapshot, client, tauri, isTauri,
                   INTEGRATION_CONFIG, isInitialized, isBackendReady, retryCount, calls>>

\* The timer of line 167 fires: initialize(options) is called again, with the
\* options that are merged already
RetryTimerFires ==
    /\ init.pc = "retryDelay" /\ init.timer = 0
    /\ LET g == [init EXCEPT !.op = "timer", !.lastProbe = 0,
                             !.reentries = IF @ < MaxReentries THEN @ + 1 ELSE @]
       IN  IF isInitialized
           THEN /\ init' = [g EXCEPT !.pc = "resolved"]
                /\ UNCHANGED <<CONFIG, INTEGRATION_CONFIG, isInitialized>>
           ELSE /\ UNCHANGED INTEGRATION_CONFIG
                /\ InitializeBody(g)
    /\ UNCHANGED <<BRIDGE_CONFIG, classified, call, xhr, api, snapshot, client, tauri, isTauri, isBackendReady,
                   retryCount, calls>>

\* One unit of time passes while initialize() is suspended
Tick ==
    /\ init.pc \in {"probing", "waiting", "testConfig", "testModels", "retryDelay"}
    /\ \/ init.wait = "pending" /\ init.elapsed <= INTEGRATION_CONFIG.connectionTimeout
       \/ init.timer > 0
    /\ init' = [init EXCEPT
                  !.elapsed = IF init.wait = "pending"
                                 /\ @ <= INTEGRATION_CONFIG.connectionTimeout
                              THEN @ + 1 ELSE @,
                  !.timer = IF @ > 0 THEN @ - 1 ELSE 0,
                  !.lastProbe = 0,
                  !.op = "tick"]
    /\ UNCHANGED <<CONFIG, BRIDGE_CONFIG, classified, call, xhr, api, snapshot, client, tauri, isTauri,
                   INTEGRATION_CONFIG, isInitialized, isBackendReady, retryCount, calls>>

\* reset()
Reset ==
    /\ isInitialized' = FALSE
    /\ isBackendReady' = FALSE
    /\ retryCount' = 0
    /\ init' = [init EXCEPT !.op = "reset", !.resetDuring = TRUE, !.lastProbe = 0]
    /\ UNCHANGED <<CONFIG, BRIDGE_CONFIG, classified, call, xhr, api, snapshot, client, tauri, isTauri,
                   INTEGRATION_CONFIG, calls>>

\* The application calls fetch once tauri-http-proxy.js has patched it
AppFetch(u, options) ==
    /\ init.installed
    /\ Fetch("proxy", u, options)

\* The requests of the application during start-up, and the answers to them
AppUrls == { Str(<<"/", "api", "/", "config">>), Str(<<"/", "static", "/", "app.css">>) }

AppEnvelopes ==
    { e \in Envelopes : e.status_code = 200 /\ e.headers.contentType = "application/json"
                           /\ e.body = <<123, 125>> }

\* tauri-http-proxy.js patches fetch when it is loaded at pathname '/' in a
\* Tauri window (lines 550-552), and in initialize() otherwise
InitGate ==
    /\ CONFIG = DefaultConfig
    /\ BRIDGE_CONFIG = DefaultBridgeConfig
    /\ classified = NotClassified
    /\ InitIdle
    /\ isTauri \in BOOLEAN
    /\ INTEGRATION_CONFIG = DefaultIntegrationConfig
    /\ isInitialized = FALSE
    /\ isBackendReady = FALSE
    /\ retryCount = 0
    /\ \E atRoot \in BOOLEAN :
          init = IF isTauri /\ atRoot THEN proxyFetch(IdleInit) ELSE IdleInit
    /\ calls = IdleCalls
    /\ api = IdleApi
    /\ snapshot = NoSnapshot
    /\ client = IdleClient
    /\ tauri = NewTauriIntegration

NextGate ==
    \/ \E options \in InitializeOptions : Initialize(options)
    \/ \E envelope \in GateEnvelopes : ProbeResolve(envelope)
    \/ ProbeReject("E1")
    \/ \E envelope \in GateEnvelopes : TestResolve(envelope)
    \/ TestReject("E1")
    \/ PollTimerFires
    \/ RetryTimerFires
    \/ Tick
    \/ Reset
    \/ \E u \in AppUrls : AppFetch(u, [method |-> "none", body |-> FALSE, headers |-> FALSE])
    \/ \E envelope \in AppEnvelopes : NativeResolve(envelope)
    \/ NativeReject("E1")
    \/ \E net \in NetworkResults : NetworkSettle(net)

SpecGate == InitGate /\ [][NextGate]_vars

\* The timers and the clock run on their own; the native command answers when
\* it answers, if at all
SpecGateFair ==
    SpecGate /\ WF_vars(Tick) /\ WF_vars(PollTimerFires) /\ WF_vars(RetryTimerFires)

(***************************************************************************)
(* Bridged calls in flight together. Each call of the patched fetch or of   *)
(* proxyRequest holds its request and its response in variables of its own  *)
(* activation; the native command answers the pending invocations in any    *)
(* order, and each answer resolves the promise of its own invoke().         *)
(***************************************************************************)

ConcUrls == { Str(<<"/", "api", "/", "config">>), Str(<<"/", "api", "/", "models">>) }

ConcImpls == {"proxy", "bridge", "request"}

\* The envelopes the native command answers concurrent calls with
ConcEnvelopes ==
    { e \in Envelopes :
        \/ e.status_code = 200 /\ e.headers.contentType = "application/json"
              /\ e.body = <<123, 125>>
        \/ e.status_code = 200 /\ e.headers.contentType = "image/png" /\ e.body = <<65>>
        \/ e.status_code = 302 /\ e.headers.location # NoLocation }

\* The redirects a call in flight with others is answered with
MaxConcChase == 1

\* Mutant of Delivered: one response slot shared by the calls, holding the
\* answer that arrived last
Delivered_Shared(cs, i) ==
    IF \E j \in Callers : j # i /\ cs[j].answered
    THEN cs[CHOOSE j \in Callers : j # i /\ cs[j].answered].answer
    ELSE cs[i].answer

\* The envelope call i receives from its await invoke(...): the answer to the
\* invocation it made itself (response is a variable of the call's activation)
Delivered(cs, i) == cs[i].answer

\* Call i starts: fetch(url) of either module, or proxyRequest(url)
ConcCall(i, impl, u) ==
    /\ calls[i].c.pc = "idle"
    /\ LET c == [IdleCall EXCEPT !.impl = impl, !.url = u]
       IN  calls' = [calls EXCEPT ![i].c = IF impl = "proxy" THEN ProxyFetchCall(c)
                                           ELSE IF impl = "bridge" THEN BridgeFetchCall(c)
                                           ELSE ProxyRequestCall(c)]
    /\ UNCHANGED <<CONFIG, BRIDGE_CONFIG, classified, call, xhr, api, snapshot, client, tauri, integrationVars>>

\* The native command produces the answer to the pending invocation of call i
ConcAnswer(i, envelope) ==
    /\ calls[i].c.pc = "invoking" /\ ~calls[i].answered
    /\ envelope.status_code \in RedirectStatuses => calls[i].c.redirects < MaxConcChase
    /\ calls' = [calls EXCEPT ![i].answer = envelope, ![i].answered = TRUE]
    /\ UNCHANGED <<CONFIG, BRIDGE_CONFIG, classified, call, xhr, api, snapshot, client, tauri, integrationVars>>

\* The answer reaches the page: call i resumes with the envelope delivered to it
ConcDeliver(i) ==
    /\ calls[i].answered
    /\ calls' = [calls EXCEPT ![i].c = InvokeResolved(calls[i].c, Delivered(calls, i)),
                              ![i].answered = FALSE]
    /\ UNCHANGED <<CONFIG, BRIDGE_CONFIG, classified, call, xhr, api, snapshot, client, tauri, integrationVars>>

\* The pending invocation of call i rejects
ConcReject(i, err) ==
    /\ calls[i].c.pc = "invoking" /\ ~calls[i].answered
    /\ calls' = [calls EXCEPT ![i].c = InvokeRejected(calls[i].c, err)]
    /\ UNCHANGED <<CONFIG, BRIDGE_CONFIG, classified, call, xhr, api, snapshot, client, tauri, integrationVars>>

\* The network settles the originalFetch of call i
ConcNetworkSettle(i, net) ==
    /\ calls[i].c.pc = "network"
    /\ calls' = [calls EXCEPT ![i].c = NetworkSettled(calls[i].c, net)]
    /\ UNCHANGED <<CONFIG, BRIDGE_CONFIG, classified, call, xhr, api, snapshot, client, tauri, integrationVars>>

InitConcurrent ==
    /\ CONFIG = DefaultConfig
    /\ BRIDGE_CONFIG = DefaultBridgeConfig
    /\ classified = NotClassified
    /\ InitIdle
    /\ isTauri = TRUE
    /\ IdleIntegration

NextConcurrent ==
    \/ \E i \in Callers, impl \in ConcImpls, u \in ConcUrls : ConcCall(i, impl, u)
    \/ \E i \in Callers, envelope \in ConcEnvelopes : ConcAnswer(i, envelope)
    \/ \E i \in Callers : ConcDeliver(i)
    \/ \E i \in Callers : ConcReject(i, "E1")
    \/ \E i \in Callers, net \in NetworkResults : ConcNetworkSettle(i, net)

SpecConcurrent == InitConcurrent /\ [][NextConcurrent]_vars

\* send() took the bridged path: the request went to the native command and
\* not to the network
OnBridgedPath == xhr.path = "fetch" /\ call.invokes > 0 /\ call.netCalls = 0

\* C2: once abort() was called on a request whose send() took the bridged path
\* and whose response had not completed, no later step sets readyState to 3 or
\* 4 (and so none fires a completion readystatechange or calls onload), also
\* when the native invocation resolves afterwards.
C2_NoCompletionAfterAbort ==
    [][(xhr.abortedInFlight /\ xhr.pc \in {"sent", "parsing"} /\ OnBridgedPath /\ xhr' # xhr)
          => (xhr'.readyState \notin {3, 4} /\ <<"load", "field">> \notin xhr'.fired)]_vars

\* C6: a send() that was not aborted has called onload or onerror once its
\* promise chain has ended, whatever the fetch and the body decoding did.
C6_SendCallsAHandler ==
    (xhr.pc = "done" /\ xhr.path = "fetch" /\ ~xhr.aborted
        /\ {"load", "error"} \subseteq xhr.hasField)
    => xhr.completion # "none"

\* C7: no step other than abort() lowers readyState.
C7_ReadyStateForward ==
    [][(xhr' # xhr /\ xhr'.op # "abort") => xhr'.readyState >= xhr.readyState]_vars

\* C8: every change of readyState to 1, 2, 3 or 4 outside _sendNative calls the
\* onreadystatechange handler field.
C8_ChangeNotifiesField ==
    [][(xhr'.readyState # xhr.readyState /\ xhr'.readyState \in 1..4
            /\ xhr'.path # "native" /\ "readystatechange" \in xhr'.hasField)
          => <<"readystatechange", "field">> \in xhr'.fired]_vars

\* C9: for each of readystatechange, load, error and abort, an operation calls
\* the on<name> handler field exactly when it calls the callback subscribed
\* with addEventListener(name).
C9_FieldAndListenerTogether ==
    \A name \in EventNames :
        (name \in xhr.hasField /\ name \in xhr.hasListener) =>
            (<<name, "field">> \in xhr.fired <=> <<name, "listener">> \in xhr.fired)

\* C3: against a handler that answers every request with a redirect, a bridged
\* fetch re-invokes the native command at most a fixed number of times (the
\* cap the design names is 10) before it settles.
C3_RedirectChaseCapped == call.located => call.redirects <= 10

\* C4: a bridged fetch whose native invocation rejected has re-issued the
\* request over the network and settled with the outcome of that request.
C4_FallbackOnNativeReject ==
    (call.pc = "settled" /\ call.bridgeError = "E1") =>
        /\ call.netCalls = 1
        /\ call.outcome.via = "network"
        /\ call.outcome = call.net

\* The patched fetch of tauri-http-proxy.js settled after the native invocation
\* rejected with E1 and the fallback request failed as well
BothFailed ==
    /\ call.pc = "settled" /\ call.impl = "proxy"
    /\ call.bridgeError = "E1"
    /\ call.net.kind = "rejected"

BridgedSuccess ==
    call.pc = "settled" /\ call.outcome.kind = "resolved" /\ call.outcome.via = "bridge"

\* C10: a bridged fetch that succeeds hands the caller the envelope's status,
\* the headers the envelope carries, and a body of exactly the envelope's bytes.
C10_RoundTrip ==
    BridgedSuccess =>
        /\ call.outcome.response.status = call.envelope.status_code
        /\ call.envelope.headers.contentType # "none" =>
               call.outcome.response.headers.contentType = call.envelope.headers.contentType
        /\ call.outcome.response.body = call.envelope.body


\* A redirect envelope that names where to go
LocatedRedirect(envelope) ==
    envelope.status_code \in RedirectStatuses /\ envelope.headers.location # NoLocation

\* C11: when the native command answers a call of tauri-http-proxy.js (the
\* patched fetch or proxyRequest) with a 301/302/303/307/308 envelope that
\* carries a Location, the command is invoked a second time, with a GET
\* request to that Location without headers or body, and the call settles with
\* the answer to it, not with a network response or an error of the bridge.
C11_RedirectReissued ==
    (call.pc = "settled" /\ call.impl \in {"proxy", "request"} /\ LocatedRedirect(call.first))
    => /\ call.invokes >= 2
       /\ call.request = [uri |-> call.first.headers.location, method |-> "GET",
                          body |-> FALSE, headers |-> FALSE,
                          command |-> CONFIG.tauriCommand]
       /\ call.outcome.kind = "resolved"
       /\ call.outcome.via # "network"

\* The URL is a string with the scheme data:, blob: or ipc://
InternalScheme(u) ==
    u.kind = "string" /\ Len(u.s) > 0 /\ u.s[1] \in OpaqueSchemes \cup {"ipc://"}

\* C17: a fetch of a data:, blob: or ipc:// URL never invokes the native
\* command, whatever follows the scheme.
C17_InternalSchemesPassThrough ==
    (call.pc # "idle" /\ InternalScheme(call.url)) => call.invokes = 0

\* C18: a fetch whose URL argument is no string (a URL or a Request object) is
\* classified as not bridged without an error and is handed to the original
\* fetch.
C18_NonStringPassedThrough ==
    (call.pc = "settled" /\ call.impl \in Impls /\ call.url.kind # "string")
    => /\ call.invokes = 0
       /\ call.netCalls = 1
       /\ call.outcome.via = "network"

\* C19: a request envelope handed to the native command with method GET or
\* HEAD carries no body, whatever the caller passed.
C19_NoBodyOnGetHead ==
    (call.pc = "invoking" /\ call.request.method \in {"GET", "HEAD"}) => ~call.request.body

\* C12: a pending waitForBackendReady() eventually settles, also when the
\* native command never answers a probe. (While a probe is pending no code of
\* the wait runs and no timer of it is set: time passes, and nothing else.)
C12_WaitSettles == (init.wait = "pending") ~> (init.wait # "pending")

\* C13: waitForBackendReady() rejects only with the timeout error and only
\* when more than the configured timeout has elapsed; a probe that fails or
\* rejects never rejects the wait by itself.
C13_OnlyTimeoutRejects ==
    init.wait = "rejected" =>
        /\ init.waitError = "timeout"
        /\ init.elapsed > INTEGRATION_CONFIG.connectionTimeout

\* C13 witness: the wait was rejected after a probe had failed
C13_Witness ==
    init.wait = "rejected" /\ init.probeFailed /\ init.waitError = "timeout"

\* C14: initialize() surfaces a readiness timeout (rejection and error
\* notification) only after a second wait for the backend has timed out too.
C14_RetriedBeforeFailure ==
    (init.pc = "rejected" /\ init.error = "timeout" /\ init.notified = "error")
    => init.attempts >= 2

\* C15: the patched fetch invokes the native command for an application
\* request only after a health probe has succeeded.
C15_NoTrafficBeforeReady == call.invokes > 0 => init.everReady

\* C16: no step other than reset() lowers retryCount; a completed initialize()
\* leaves it as it is.
C16_OnlyResetClears == [][retryCount' < retryCount => init'.op = "reset"]_vars

\* C16 witness: initialize() completed after a retry and the count is kept
C16_Witness == isInitialized /\ init.pc = "resolved" /\ retryCount > 0

\* C20: with several bridged calls in flight and their invocations answered
\* in any order, each call resumes with the envelope the native command
\* produced for its own invocation: a redirect is followed to the Location of
\* that envelope, proxyRequest returns it, and the patched fetch resolves with
\* the Response built from it.
C20_OwnEnvelope ==
    \A i \in Callers :
        LET c == calls[i].c
            own == calls[i].answer
        IN  /\ (c.invokes > 0 /\ c.pc # "invoking" /\ ~calls[i].answered /\ c.bridgeError # "E1")
                  => c.envelope = own
            /\ (c.pc = "invoking" /\ c.redirects > 0 /\ ~calls[i].answered)
                  => c.request.uri = c.envelope.headers.location /\ c.envelope = own
            /\ (c.pc = "settled" /\ c.outcome.kind = "resolved" /\ c.outcome.via = "request")
                  => c.returned = own
            /\ (c.pc = "settled" /\ c.outcome.kind = "resolved" /\ c.outcome.via = "bridge")
                  => c.outcome.response = ToResponse(own).response

\* C20 witness: call 1 resolved with the envelope of its own invocation while
\* the answer to call 2, another envelope, was produced and not delivered yet
C20_Witness ==
    /\ calls[1].c.pc = "settled" /\ calls[1].c.outcome.kind = "resolved"
    /\ calls[1].c.outcome.via = "bridge"
    /\ calls[1].c.outcome.response = ToResponse(calls[1].answer).response
    /\ calls[2].answered
    /\ calls[2].answer # calls[1].answer

\* C21: a top-level initialize() call in the Tauri environment that went past
\* the already-initialized check and ended has dispatched exactly one event:
\* 'tauri-seamless-ready' when it returned, 'tauri-seamless-error' when it
\* threw, also when it retried.
C21_OneNotification ==
    (isTauri /\ init.entered /\ init.pc \in {"resolved", "rejected"})
    => IF init.pc = "resolved"
       THEN init.notified = "ready" /\ init.errorEvents = 0
       ELSE init.notified = "error" /\ init.errorEvents = 1

\* C24 as stated: one top-level initialize() call re-enters itself at most
\* retryAttempts times.
C24_ReentriesBounded == init.reentries <= INTEGRATION_CONFIG.retryAttempts

\* C24 amended: one top-level initialize() call during which reset() is not
\* called re-enters itself at most retryAttempts times (a reset() during the
\* call clears the counter and allows as many re-entries again).
C24_ReentriesBoundedWithoutReset ==
    ~init.resetDuring => init.reentries <= INTEGRATION_CONFIG.retryAttempts

\* C24 witness: a call used up its retryAttempts re-entries and returned true
C24_Witness ==
    /\ init.pc = "resolved" /\ isInitialized
    /\ ~init.resetDuring
    /\ init.reentries = INTEGRATION_CONFIG.retryAttempts
    /\ init.reentries > 0

\* C27: a probe step resolves the wait and sets the backend-ready flag exactly
\* when the probe returned status 200; after any other status, or a probe that
\* threw, the wait is not resolved, the flag is left alone, and the wait polls
\* again after the interval or rejects with the timeout.
C27_ReadyOnlyOn200 ==
    [][/\ (init.pc = "probing" /\ init'.op = "probe" /\ init' # init)
          => IF init'.lastProbe = 200
             THEN init'.wait = "resolved" /\ isBackendReady'
             ELSE /\ init'.wait # "resolved"
                  /\ isBackendReady' = isBackendReady
                  /\ \/ init'.pc = "waiting" /\ init'.timer = PollDelay
                     \/ init'.pc = "rejected" /\ init'.waitError = "timeout"
       /\ (isBackendReady' /\ ~isBackendReady)
          => init'.op = "probe" /\ init'.lastProbe = 200]_vars

\* C27 witness: the gate resolved on a 200 probe after an earlier probe failed
C27_Witness ==
    /\ init.op = "probe" /\ init.lastProbe = 200
    /\ init.wait = "resolved" /\ isBackendReady
    /\ init.probeFailed /\ init.elapsed > 0

\* C22: an envelope with a 4xx or 5xx status answering a bridged fetch is
\* delivered as a resolved response with that status and no network request is
\* made; a bridged fetch goes to the network only after the invocation
\* rejected or handling its answer failed.
C22_ErrorStatusDelivered ==
    /\ (call.impl \in {"proxy", "bridge"} /\ call.invokes > 0
          /\ call.envelope.status_code \in 400..599)
       => /\ call.netCalls = 0
          /\ call.pc = "settled"
          /\ call.outcome.kind = "resolved" /\ call.outcome.via = "bridge"
          /\ call.outcome.response.status = call.envelope.status_code
    /\ (call.impl \in {"proxy", "bridge"} /\ call.invokes > 0 /\ call.netCalls > 0)
       => call.bridgeError # "none"

\* C22 witness: a bridged fetch of tauri-http-proxy.js answered with status 500
\* resolved with a response of status 500
C22_Witness ==
    /\ call.impl = "proxy" /\ call.pc = "settled" /\ call.invokes = 1
    /\ call.envelope.status_code = 500
    /\ call.outcome.kind = "resolved" /\ call.outcome.response.status = 500

\* C29: the method of every request envelope handed to the native command is
\* an uppercase token.
C29_MethodUppercase ==
    call.pc = "invoking"
    => call.request.method \in {"GET", "HEAD", "POST", "PUT", "DELETE", "PATCH", "OPTIONS"}

InitClassify ==
    /\ CONFIG = DefaultConfig
    /\ BRIDGE_CONFIG = DefaultBridgeConfig
    /\ classified = NotClassified
    /\ InitIdle
    /\ isTauri = TRUE
    /\ IdleIntegration

NextClassify ==
    \/ \E newConfig \in NewConfigs : setConfig(newConfig)
    \/ \E bp \in BridgePathLists, ep \in ExcludePathLists : AssignBridgeConfig(bp, ep)
    \/ \E u \in UrlInputs : Classify(u)

SpecClassify == InitClassify /\ [][NextClassify]_vars

\* The string shouldProxy tests starts with an exclude prefix of cfg
ProxyExcluded(cfg, u) ==
    u.kind = "string" /\ \E p \in cfg.excludePaths : StartsWith(u.s, p)

\* The string shouldProxy tests starts with an include prefix of cfg
ProxyIncluded(cfg, u) ==
    u.kind = "string" /\ \E p \in cfg.proxyPaths : StartsWith(u.s, p)

\* The pathname shouldUseBridge tests starts with an exclude prefix of cfg
BridgeExcluded(cfg, u) ==
    /\ ParseURL(ToUrlString(u)).ok
    /\ \E p \in cfg.excludePaths : StartsWith(ParseURL(ToUrlString(u)).pathname, p)

\* The pathname shouldUseBridge tests starts with an include prefix of cfg
BridgeIncluded(cfg, u) ==
    /\ ParseURL(ToUrlString(u)).ok
    /\ \E p \in cfg.bridgePaths : StartsWith(ParseURL(ToUrlString(u)).pathname, p)

C25_DefaultHeuristic ==
    classified.done =>
        LET u == classified.u
            parsed == ParseURL(ToUrlString(u))
            apiOrWs == \/ StartsWith(parsed.pathname, <<"/", "api", "/">>)
                       \/ StartsWith(parsed.pathname, <<"/", "ws", "/">>)
        IN  /\ (parsed.ok /\ ~BridgeExcluded(BRIDGE_CONFIG, u))
               => (classified.bridge <=> (BridgeIncluded(BRIDGE_CONFIG, u) \/ apiOrWs))
            /\ (parsed.ok /\ u.kind = "string" /\ StartsWith(u.s, <<"/">>)
                    /\ ~ProxyExcluded(CONFIG, u))
               => (classified.proxy <=> (ProxyIncluded(CONFIG, u) \/ apiOrWs))

(***************************************************************************)
(* getConfig() of tauri-http-proxy.js and what its caller does with the    *)
(* object it returned.                                                      *)
(***************************************************************************)

\* getConfig(): { ...CONFIG } is a new object whose fields hold the values of
\* CONFIG's fields; proxyPaths and excludePaths hold the arrays of CONFIG
\* themselves
GetConfig ==
    /\ ~snapshot.taken
    /\ snapshot' = [taken |-> TRUE, value |-> CONFIG, shared |-> {"proxyPaths", "excludePaths"}]
    /\ UNCHANGED <<CONFIG, BRIDGE_CONFIG, classified, call, xhr, api, client, tauri, integrationVars, calls>>

\* snapshot[field].push(p): the array is changed in place, and with it the
\* field of CONFIG that holds the same array
PushToSnapshot(field, p) ==
    /\ snapshot.taken
    /\ snapshot' = [snapshot EXCEPT !.value[field] = @ \cup {p}]
    /\ CONFIG' = IF field \in snapshot.shared
                 THEN [CONFIG EXCEPT ![field] = @ \cup {p}]
                 ELSE CONFIG
    /\ classified' = NotClassified
    /\ UNCHANGED <<BRIDGE_CONFIG, call, xhr, api, client, tauri, integrationVars, calls>>

\* snapshot[field] = list: the snapshot holds a new array, CONFIG keeps its own
AssignToSnapshot(field, list) ==
    /\ snapshot.taken
    /\ snapshot' = [snapshot EXCEPT !.value[field] = list, !.shared = @ \ {field}]
    /\ UNCHANGED <<CONFIG, BRIDGE_CONFIG, classified, call, xhr, api, client, tauri, integrationVars,
                   calls>>

InitSnapshot ==
    /\ CONFIG = DefaultConfig
    /\ BRIDGE_CONFIG = DefaultBridgeConfig
    /\ classified = NotClassified
    /\ InitIdle
    /\ isTauri = TRUE
    /\ IdleIntegration

NextSnapshot ==
    \/ GetConfig
    \/ \E field \in {"proxyPaths", "excludePaths"}, p \in { <<"/", "static">>, <<"/", "api">> } :
          PushToSnapshot(field, p)
    \/ \E field \in {"proxyPaths", "excludePaths"}, list \in { {}, { <<"/", "api">> } } :
          AssignToSnapshot(field, list)
    \/ \E field \in {"proxyPaths", "excludePaths"}, list \in { {}, { <<"/", "api">> } } :
          setConfig([f \in {field} |-> list])
    \/ \E u \in UrlInputs : Classify(u)

SpecSnapshot == InitSnapshot /\ [][NextSnapshot]_vars

\* C26: a step that modifies the snapshot getConfig() returned (its lists
\* included) changes no decision of shouldProxy.
C26_SnapshotDetached ==
    [][(snapshot.taken /\ snapshot'.value # snapshot.value)
          => \A u \in UrlInputs : shouldProxy(CONFIG', u) = shouldProxy(CONFIG, u)]_vars

(***************************************************************************)
(* apiRequest(path, options) of tauri-seamless-integration.js, which the    *)
(* helpers api.get, api.post, ... call. One call is followed: it awaits     *)
(* initialize() when the module is not initialized, then proxyRequest, and  *)
(* then decodes the body of the envelope.                                   *)
(***************************************************************************)

\* The paths and methods of the helpers: api.get('/api/config'),
\* api.post('/api/chat/completions', payload)
ApiCalls ==
    { [path |-> <<"/", "api", "/", "config">>, method |-> "GET", body |-> FALSE, headers |-> FALSE],
      [path |-> <<"/", "api", "/", "chat", "/", "completions">>, method |-> "POST",
       body |-> TRUE, headers |-> TRUE] }

\* The envelopes the native command answers apiRequest with; the bodies are
\* those of Bodies, the JSON text "A" in quotes, and a quoted byte that no
\* UTF-8 text holds
ApiEnvelopes ==
    { [status_code |-> st, headers |-> [contentType |-> "application/json", location |-> NoLocation],
       body |-> b] : st \in {200, 500}, b \in Bodies \cup { <<34, 65, 34>>, <<34, 255, 34>> } }
    \cup
    { [status_code |-> 302, headers |-> [contentType |-> "none", location |-> <<"/", "api", "/", "config">>],
       body |-> <<>>] }

\* JSON.parse(text) for the texts of these bodies: "{}" is an object, a text in
\* double quotes with no quote, backslash or control character inside is a
\* string (U+FFFD is an ordinary character); anything else is a SyntaxError
JsonParse(text) ==
    IF text = <<123, 125>> THEN [ok |-> TRUE, value |-> text]
    ELSE IF /\ Len(text) >= 2 /\ text[1] = 34 /\ text[Len(text)] = 34
            /\ \A i \in 2..(Len(text) - 1) : text[i] >= 32 /\ text[i] \notin {34, 92}
         THEN [ok |-> TRUE, value |-> text]
    ELSE [ok |-> FALSE, value |-> <<>>]

\* Lines 215-222: decoder.decode never throws (the decoder is not fatal), so
\* the catch is entered only when JSON.parse throws
DecodeBody(bytes) ==
    LET parsed == JsonParse(Utf8Decode(bytes, 1))
    IN  IF parsed.ok THEN [kind |-> "json", text |-> parsed.value, bytes |-> <<>>]
        ELSE [kind |-> "bytes", text |-> <<>>, bytes |-> bytes]

\* apiRequest rejects with err
ApiRejected(err) == [NoApiResult EXCEPT !.kind = "rejected", !.error = err]

\* The object apiRequest returns for the envelope response (lines 224-230)
ApiResolved(response) ==
    [kind |-> "resolved", error |-> "none", status |-> response.status_code,
     headers |-> response.headers, data |-> DecodeBody(response.body)]

\* apiRequest from line 207 on: proxyRequest is called; when it throws before
\* its await (no Tauri), the catch block rethrows and the call rejects
ApiProxyRequest(a, request) ==
    LET c == ProxyRequestCall([IdleCall EXCEPT !.impl = "request", !.url = Str(request.path),
                                               !.options = [method |-> request.method,
                                                            body |-> request.body,
                                                            headers |-> request.headers]])
    IN  /\ call' = c
        /\ api' = IF c.pc = "settled"
                  THEN [a EXCEPT !.pc = "settled", !.result = ApiRejected(c.outcome.error)]
                  ELSE [a EXCEPT !.pc = "requesting"]

\* apiRequest(path, options) is called, up to its first await that suspends;
\* initialize() is called without argument (options = {})
ApiRequest(request) ==
    /\ api.pc \in {"idle", "settled"} /\ call.pc \in {"idle", "settled"}
    /\ init.pc \in {"idle", "resolved", "rejected"}
    /\ LET a == [IdleApi EXCEPT !.path = request.path, !.method = request.method,
                                !.body = request.body, !.headers = request.headers]
       IN  IF isInitialized
           THEN /\ ApiProxyRequest(a, request)
                /\ UNCHANGED <<CONFIG, integrationVars, BRIDGE_CONFIG, classified, xhr, snapshot,
                               client, tauri, calls>>
           ELSE /\ InitializeCall([f \in {} |-> FALSE])
                /\ IF init'.pc = "resolved" THEN ApiProxyRequest(a, request)
                   ELSE /\ api' = [a EXCEPT !.pc = "initializing"]
                        /\ call' = IdleCall

\* The await initialize() of line 204 settled: an error goes to the caller,
\* otherwise the request is made
ApiInitialized ==
    /\ api.pc = "initializing" /\ init.pc \in {"resolved", "rejected"}
    /\ IF init.pc = "rejected"
       THEN /\ api' = [api EXCEPT !.pc = "settled", !.result = ApiRejected(init.error)]
            /\ UNCHANGED call
       ELSE ApiProxyRequest(api, api)
    /\ UNCHANGED <<CONFIG, integrationVars, BRIDGE_CONFIG, classified, xhr, snapshot, client, tauri, calls>>

\* The await proxyRequest(...) of line 208 settled
ApiSettle ==
    /\ api.pc = "requesting" /\ call.pc = "settled"
    /\ api' = [api EXCEPT !.pc = "settled",
                          !.result = IF call.outcome.kind = "rejected"
                                     THEN ApiRejected(call.outcome.error)
                                     ELSE ApiResolved(call.returned)]
    /\ UNCHANGED <<CONFIG, integrationVars, BRIDGE_CONFIG, classified, call, xhr, snapshot, client, tauri,
                   calls>>

\* The page runs in a Tauri window or in a browser; in a Tauri window the
\* module may be initialized already
InitApi ==
    /\ CONFIG = DefaultConfig
    /\ BRIDGE_CONFIG = DefaultBridgeConfig
    /\ classified = NotClassified
    /\ InitIdle
    /\ isTauri \in BOOLEAN
    /\ api = IdleApi
    /\ snapshot = NoSnapshot
    /\ client = IdleClient
    /\ tauri = NewTauriIntegration
    /\ INTEGRATION_CONFIG = DefaultIntegrationConfig
    /\ isInitialized = FALSE
    /\ isBackendReady = FALSE
    /\ retryCount = 0
    /\ init = IdleInit
    /\ calls = IdleCalls

NextApi ==
    \/ \E request \in ApiCalls : ApiRequest(request)
    \/ ApiInitialized
    \/ ApiSettle
    \/ \E envelope \in ApiEnvelopes : NativeResolve(envelope)
    \/ NativeReject("E1")
    \/ \E envelope \in GateEnvelopes : ProbeResolve(envelope)
    \/ ProbeReject("E1")
    \/ \E envelope \in GateEnvelopes : TestResolve(envelope)
    \/ TestReject("E1")
    \/ PollTimerFires
    \/ RetryTimerFires
    \/ Tick

SpecApi == InitApi /\ [][NextApi]_vars

\* C23: in a non-Tauri environment a call of apiRequest (through api.get,
\* api.post, ...) that ended has resolved with a response.
C23_WorksOutsideTauri ==
    (~isTauri /\ api.pc = "settled") => api.result.kind = "resolved"

\* C28: a call of apiRequest whose request was answered with an envelope that
\* is no redirect resolves with the envelope's status and headers, and when
\* the body is not valid UTF-8 or its text not valid JSON, data is the
\* envelope's byte array.
C28_RawBytesOnDecodeFailure ==
    (api.pc = "settled" /\ call.impl = "request" /\ call.invokes = 1
        /\ call.first # NoEnvelope /\ call.first.status_code \notin RedirectStatuses)
    => /\ api.result.kind = "resolved"
       /\ api.result.status = call.first.status_code
       /\ api.result.headers = call.first.headers
       /\ (\/ Utf8Encode(Utf8Decode(call.first.body, 1), 1) # call.first.body
           \/ ~JsonParse(Utf8Decode(call.first.body, 1)).ok)
          => api.result.data = [kind |-> "bytes", text |-> <<>>, bytes |-> call.first.body]

(***************************************************************************)
(* OpenCoreUIAPIClient of api-integration.js: initialize() and the calls    *)
(* it makes. Time is counted in polling intervals of waitForBridgeReady     *)
(* (100 ms).                                                                *)
(***************************************************************************)

\* waitForBridgeReady(timeout = 10000), in polling intervals
BridgeReadyTimeout == 100

\* The activations of initialize() are counted up to MaxFrames
MaxFrames == 3

\* waitForBridgeReady() is called: checkReady runs at once and resolves the
\* promise when window.TauriBridge.CONFIG.enabled is set; otherwise it arms
\* a timer for itself
WaitForBridgeReady(c) ==
    [c EXCEPT !.pc = "waiting", !.elapsed = 0, !.resolved = BRIDGE_CONFIG.enabled,
              !.polling = @ \/ ~BRIDGE_CONFIG.enabled]

\* client.initialize(), called by the application (lines 28-49)
ClientInitialize ==
    /\ client.pc \in {"idle", "done"}
    /\ client' = IF client.initialized
                 THEN [client EXCEPT !.pc = "done", !.result = "true"]
                 ELSE IF ~isTauri
                 THEN [client EXCEPT !.pc = "done", !.initialized = TRUE, !.result = "true"]
                 ELSE WaitForBridgeReady([client EXCEPT !.frames = 1, !.result = "none"])
    /\ UNCHANGED <<CONFIG, BRIDGE_CONFIG, classified, call, xhr, api, snapshot, tauri, integrationVars,
                   calls>>

\* The await of line 36 resumes: the wait is over
ClientWaitResolved ==
    /\ client.pc = "waiting" /\ client.resolved
    /\ client' = [client EXCEPT !.pc = "ready"]
    /\ UNCHANGED <<CONFIG, BRIDGE_CONFIG, classified, call, xhr, api, snapshot, tauri, integrationVars,
                   calls>>

\* Line 39: testConnection() calls get('/health'), which calls request(),
\* which begins with await this.initialize() (line 96). this.initialized is
\* set at line 42 only, after testConnection() returned: the new activation
\* passes the check of line 29 and waits for the bridge again
ClientTestConnection ==
    /\ client.pc = "ready"
    /\ client' = WaitForBridgeReady([client EXCEPT !.frames = IF @ < MaxFrames THEN @ + 1 ELSE @])
    /\ UNCHANGED <<CONFIG, BRIDGE_CONFIG, classified, call, xhr, api, snapshot, tauri, integrationVars,
                   calls>>

\* One polling interval passes in waitForBridgeReady: the timeout timer
\* rejects when its time has come (initialize() catches and returns false),
\* and checkReady runs again; the timeout callback does not cancel the timer
\* of checkReady, which arms itself again unless the bridge is enabled
ClientPoll ==
    /\ client.pc = "waiting" /\ ~client.resolved
    /\ client' = IF client.elapsed + 1 >= BridgeReadyTimeout
                 THEN [client EXCEPT !.pc = "done", !.elapsed = @ + 1, !.frames = 0,
                                     !.result = "false",
                                     !.polling = ~BRIDGE_CONFIG.enabled]
                 ELSE [client EXCEPT !.elapsed = @ + 1, !.resolved = BRIDGE_CONFIG.enabled,
                                     !.polling = ~BRIDGE_CONFIG.enabled]
    /\ UNCHANGED <<CONFIG, BRIDGE_CONFIG, classified, call, xhr, api, snapshot, tauri, integrationVars,
                   calls>>

\* The timer of checkReady fires after its waitForBridgeReady() has rejected:
\* checkReady arms itself again unless the bridge is enabled (resolve() on
\* the settled promise does nothing)
ClientStalePoll ==
    /\ client.polling /\ client.pc # "waiting"
    /\ client' = [client EXCEPT !.polling = ~BRIDGE_CONFIG.enabled]
    /\ UNCHANGED <<CONFIG, BRIDGE_CONFIG, classified, call, xhr, api, snapshot, tauri, integrationVars,
                   calls>>

\* window.TauriBridge.CONFIG.enabled = true: the bridge is switched on
EnableBridge ==
    /\ ~BRIDGE_CONFIG.enabled
    /\ BRIDGE_CONFIG' = [BRIDGE_CONFIG EXCEPT !.enabled = TRUE]
    /\ UNCHANGED <<CONFIG, classified, call, xhr, api, snapshot, client, tauri, integrationVars, calls>>

\* The page runs in a Tauri window or in a browser; the bridge is enabled
\* when window.__TAURI__ is set
InitClient ==
    /\ CONFIG = DefaultConfig
    /\ BRIDGE_CONFIG \in { [DefaultBridgeConfig EXCEPT !.enabled = e] : e \in BOOLEAN }
    /\ classified = NotClassified
    /\ InitIdle
    /\ isTauri \in BOOLEAN
    /\ IdleIntegration

NextClient ==
    \/ ClientInitialize
    \/ ClientWaitResolved
    \/ ClientTestConnection
    \/ ClientPoll
    \/ ClientStalePoll
    \/ EnableBridge

SpecClient == InitClient /\ [][NextClient]_vars

\* The awaits of initialize() resume and the timers of waitForBridgeReady fire
SpecClientFair ==
    /\ SpecClient
    /\ WF_vars(ClientWaitResolved) /\ WF_vars(ClientTestConnection) /\ WF_vars(ClientPoll)
    /\ WF_vars(ClientStalePoll)

\* C30: in Tauri mode, a call of OpenCoreUIAPIClient.initialize() that found
\* the bridge enabled eventually completes.
C30_InitializeCompletes ==
    (isTauri /\ client.pc = "waiting" /\ client.resolved) ~> (client.pc = "done")

\* C31: with autoConnect on in the Tauri environment, a call of initialize()
\* that went past the already-initialized check and reported success (returned
\* true, dispatched 'tauri-seamless-ready', left the initialized flag set) is
\* one whose last API connection test passed.
C31_ReadyOnlyAfterPassedTest ==
    (isTauri /\ INTEGRATION_CONFIG.autoConnect /\ init.entered
        /\ init.pc = "resolved" /\ init.notified = "ready")
    => init.lastTest = "passed"

\* C32: retryCount is at most the configured retryAttempts in every state.
C32_RetryCountBounded == retryCount <= INTEGRATION_CONFIG.retryAttempts

\* C34: in the Tauri environment with autoConnect on, the initialized flag
\* implies the backend-ready flag, and after a failed initialize() the
\* backend is not reported ready while not initialized.
C34_InitializedImpliesReady ==
    (isTauri /\ INTEGRATION_CONFIG.autoConnect)
    => /\ isInitialized => isBackendReady
       /\ init.pc = "rejected" => ~(isBackendReady /\ ~isInitialized)

\* C33: window.originalFetch is the real network fetch (window.fetch was
\* wrapped at most once), and a bridged fetch of tauri-http-proxy.js that is
\* waiting for the real network after its invocation failed has invoked the
\* native command exactly once.
C33_InstalledOnce ==
    /\ init.layers <= 1
    /\ (call.impl = "proxy" /\ call.pc = "network" /\ call.bridgeError # "none")
       => call.invokes = 1

\* C38: under the default configuration, a fetch of an absolute URL of an
\* origin other than the application's own never invokes the native command,
\* through either patched fetch.
C38_ForeignOriginNotBridged ==
    (call.impl \in Impls /\ call.pc # "idle" /\ call.url.kind = "string"
        /\ Len(call.url.s) >= 2 /\ call.url.s[1] \in SpecialSchemes
        /\ call.url.s[2] = "other.example")
    => call.invokes = 0

C37_NoPollingAfterTimeout ==
    (client.pc = "done" /\ client.result = "false") => ~client.polling

(***************************************************************************)
(* TauriIntegration                                                         *)
(***************************************************************************)

\* The positions at which a call of initialize() is suspended on an await
TauriAwaits ==
    {"getVersion", "detectPlatform", "initializeBackend", "healthCheck", "getConfig",
     "getModels"}

\* The catch block of initialize(): the error of step `by` is logged and
\* 'tauri-integration-error' is dispatched; the call returns
TauriFailed(t, i, by) ==
    [t EXCEPT !.pc[i] = "failed", !.thrownBy[i] = by, !.errorEvents = @ + 1]

\* The end of the try block of initialize(): setupEventListeners(),
\* overrideNativeFunctions() in a Tauri window, then isInitialized = true
\* and 'tauri-integration-ready'
TauriReady(t, i) ==
    [t EXCEPT !.pc[i] = "done", !.isInitialized = TRUE, !.readyEvents = @ + 1,
              !.listeners = IF t.appInfoTauri THEN @ + 1 ELSE @,
              !.overrides = IF t.appInfoTauri THEN @ + 1 ELSE @]

\* initialize() is called: it returns at once when isInitialized is set;
\* in a browser it finishes without waiting, in a Tauri window it waits for
\* getVersion()
TauriInitialize(i) ==
    /\ tauri.pc[i] = "idle"
    /\ tauri' =
          IF tauri.isInitialized THEN [tauri EXCEPT !.pc[i] = "returned"]
          ELSE LET t == [tauri EXCEPT !.appInfoTauri = isTauri,
                                      !.overlapped =
                                          @ \/ \E j \in Runs \ {i} : tauri.pc[j] \in TauriAwaits]
               IN  IF isTauri THEN [t EXCEPT !.pc[i] = "getVersion"] ELSE TauriReady(t, i)
    /\ UNCHANGED <<CONFIG, BRIDGE_CONFIG, classified, call, xhr, api, snapshot, client,
                   integrationVars, calls>>

\* getVersion() settles: initialize() goes on with detectPlatform(), or its
\* catch block receives the error
GetVersion(i, ok) ==
    /\ tauri.pc[i] = "getVersion"
    /\ tauri' = IF ok THEN [tauri EXCEPT !.pc[i] = "detectPlatform"]
                ELSE TauriFailed(tauri, i, "getVersion")
    /\ UNCHANGED <<CONFIG, BRIDGE_CONFIG, classified, call, xhr, api, snapshot, client,
                   integrationVars, calls>>

\* detectPlatform() returns, whether invoke('get_platform') resolved or
\* rejected; initializeBackend() starts and waits for
\* bridgeAPI.initializeBackend()
DetectPlatform(i) ==
    /\ tauri.pc[i] = "detectPlatform"
    /\ tauri' = [tauri EXCEPT !.pc[i] = "initializeBackend"]
    /\ UNCHANGED <<CONFIG, BRIDGE_CONFIG, classified, call, xhr, api, snapshot, client,
                   integrationVars, calls>>

\* bridgeAPI.initializeBackend() settles: it resolves with success set
\* ("success") or not set ("failure"), or rejects ("rejected"). On success
\* backendReady is set and testBackend() starts with the health check;
\* otherwise the error is thrown on to initialize()
InitializeBackend(i, result) ==
    /\ tauri.pc[i] = "initializeBackend"
    /\ tauri' = IF result = "success"
                THEN [tauri EXCEPT !.backendReady = TRUE, !.pc[i] = "healthCheck"]
                ELSE TauriFailed(tauri, i, "initializeBackend")
    /\ UNCHANGED <<CONFIG, BRIDGE_CONFIG, classified, call, xhr, api, snapshot, client,
                   integrationVars, calls>>

\* A request of testBackend() settles (healthCheck, getConfig, getModels in
\* turn). A rejection is thrown on through initializeBackend() to
\* initialize(); after the last request 'tauri-backend-ready' is dispatched
\* and initialize() runs to its end
TestBackend(i, ok) ==
    /\ tauri.pc[i] \in {"healthCheck", "getConfig", "getModels"}
    /\ tauri' =
          IF ~ok THEN TauriFailed(tauri, i, "testBackend")
          ELSE IF tauri.pc[i] = "healthCheck" THEN [tauri EXCEPT !.pc[i] = "getConfig"]
          ELSE IF tauri.pc[i] = "getConfig" THEN [tauri EXCEPT !.pc[i] = "getModels"]
          ELSE TauriReady([tauri EXCEPT !.backendReadyEvents = @ + 1], i)
    /\ UNCHANGED <<CONFIG, BRIDGE_CONFIG, classified, call, xhr, api, snapshot, client,
                   integrationVars, calls>>

\* The singleton is created when the module is loaded, in a Tauri window or
\* in a browser
InitTauri ==
    /\ CONFIG = DefaultConfig
    /\ BRIDGE_CONFIG = DefaultBridgeConfig
    /\ classified = NotClassified
    /\ InitIdle
    /\ calls = IdleCalls
    /\ isTauri \in BOOLEAN
    /\ IdleIntegration

NextTauri ==
    \/ \E i \in Runs : TauriInitialize(i)
    \/ \E i \in Runs, ok \in BOOLEAN : GetVersion(i, ok)
    \/ \E i \in Runs : DetectPlatform(i)
    \/ \E i \in Runs, result \in {"success", "failure", "rejected"} : InitializeBackend(i, result)
    \/ \E i \in Runs, ok \in BOOLEAN : TestBackend(i, ok)

SpecTauri == InitTauri /\ [][NextTauri]_vars

\* C35: when a call of initialize() has failed because testBackend() threw,
\* and no call has passed the backend test, backendReady is false and
\* neither 'tauri-backend-ready' nor 'tauri-integration-ready' was
\* dispatched.
C35_BackendReadyOnlyAfterTest ==
    (/\ \E i \in Runs : tauri.pc[i] = "failed" /\ tauri.thrownBy[i] = "testBackend"
     /\ \A i \in Runs : tauri.pc[i] # "done")
    => /\ ~tauri.backendReady
       /\ tauri.backendReadyEvents = 0
       /\ tauri.readyEvents = 0

\* C36: when a call of initialize() passed the isInitialized check while an
\* earlier call was still pending, at most one 'tauri-integration-ready' is
\* dispatched and the event listeners and the native-function overrides are
\* installed at most once.
C36_SideEffectsOnce ==
    tauri.overlapped
    => /\ tauri.readyEvents <= 1
       /\ tauri.listeners <= 1
       /\ tauri.overrides <= 1

====
